---------------------------- MODULE Spec2Model ----------------------------
(***************************************************************************)
(* Model of the Baker Street installer (tools/installer): the phase state  *)
(* machine of app.rs, the pull coordinator of images.rs and the deploy     *)
(* sequencer and control loop of main.rs.                                  *)
(*                                                                         *)
(* Specifications:                                                         *)
(*   SpecPhase   App::advance / App::back_to_secrets applied to any App    *)
(*   SpecPull    images::pull_all with its spawned tasks and pull_one      *)
(*   SpecDeploy  the Deploy phase: control loop, start_deploy_phase,       *)
(*               run_deploy_sequence and the AsyncMsg channel              *)
(***************************************************************************)
EXTENDS Integers, Sequences, FiniteSets

VARIABLES
    \* ---- App (app.rs:99-138) ----
    phase,                  \* App.phase
    current_secret_index,   \* App.current_secret_index
    secret_input,           \* App.secret_input, a sequence of characters
    should_quit,            \* App.should_quit
    deploy_statuses,        \* App.deploy_statuses: Seq of [label, status]
    deploy_progress,        \* App.deploy_progress: [done, total]
    manifest,               \* App.manifest: [loaded, images]; loaded is FALSE for None
    skip_extensions,        \* Cli.skip_extensions
    \* ---- the last App method applied (SpecPhase) ----
    last,                   \* [op, pre, ret]: the call, the App before it, its result
    startPhase,             \* the phase the App started in
    advCount,               \* calls of App::advance so far
    backCount,              \* calls of App::back_to_secrets so far
    \* ---- pull_all (images.rs:60-101) ----
    images,                 \* number of artifacts handed to pull_all
    permits,                \* free permits of the semaphore
    spawned,                \* artifacts the for loop has spawned a task for
    joined,                 \* handles pull_all has awaited
    task,                   \* per artifact: [pc, attempt, result] of its spawned task
    sent,                   \* per artifact: the PullEvents its task has sent on tx
    outcomes,               \* per artifact: how each docker invocation ended
    waits,                  \* per artifact: the backoff sleeps taken, in seconds
    results,                \* the results pull_all has collected from its handles
    \* ---- run_deploy_sequence and the control loop (main.rs) ----
    async_rx,               \* the AsyncMsg channel: messages sent and not yet received
    seq,                    \* the sequencer task: [pc, step_index]
    executed,               \* labels of the steps the sequencer has executed
    failed,                 \* step indices whose result was Err
    loop,                   \* position of the control loop in its iteration
    received,               \* the AsyncMsgs the control loop has handled, in order
    dropped,                \* indices of DeployStep messages that matched no table entry
    doneMsgs,               \* DeployDone messages the loop has handled
    \* ---- Health phase: App fields, poll_health (health.rs:66-175) ----
    pod_statuses,           \* App.pod_statuses: Seq of PodHealth
    health_done,            \* App.health_done
    health_failed,          \* App.health_failed
    poller,                 \* the task of start_health_phase: [pc, next, all_healthy, unhealthy, elapsed]
    deployment_names,       \* poll_health's argument: the workloads to monitor
    cluster_pods,           \* per workload: the most pods the cluster has for it
    recovery_attempts,      \* poll_health's recovery_attempts map, by workload name
    recoveryEvents,         \* per workload: RecoveryAttempt events sent
    deletions,              \* per workload: pod deletions requested
    crashSeen,              \* per workload: crash-looping pods seen in listings
    observed,               \* the pods listed so far in the current cycle
    terminals,              \* the terminal events sent: [type, unhealthy, elapsed, notReady]
    lateEvents,             \* events sent after a terminal event
    cycles,                 \* polling cycles begun
    healthStarts,           \* calls of start_health_phase
    handled,                \* terminal health events the control loop has handled
    \* ---- Secrets, Features, Confirm and the start of Pull (main.rs, app.rs:99-138) ----
    secret_prompts,         \* App.secret_prompts: Seq of [key, required, is_feature, value]
    features,               \* App.config.features: Seq of [id, enabled, secrets]
    feature_cursor,         \* App.feature_cursor
    collecting_feature_secrets, \* App.collecting_feature_secrets
    confirm_selected,       \* App.confirm_selected: 0 = Confirm, 1 = Cancel
    config,                 \* App.config: [oauth_token, api_key, voyage_api_key, agent_name, auth_token]
    pull_statuses,          \* App.pull_statuses: Seq of [image, status]
    pull_progress,          \* App.pull_progress: [done, total]
    relayed,                \* per artifact: PullEvents the relay task has forwarded
    tokens,                 \* calls of generate_auth_token so far
    cancels,                \* times Cancel was chosen in Confirm
    pullStarts,             \* times start_pull_phase spawned pull_all
    deployStarts,           \* times start_deploy_phase spawned the sequencer
    \* ---- run_non_interactive (main.rs:1066-1256) ----
    env,                    \* the process environment and the cluster: [cluster_up, oauth, api_key, github, manifest_file]
    ni,                     \* run_non_interactive: [pc, exit, k, applied]
    \* ---- create_all_secrets (main.rs:858-925), wait_for_rollout (health.rs:34-63) ----
    created,                \* the create_secret calls that succeeded, in order: [name, data]
    cas,                    \* create_all_secrets: "not_called", "running", "ok", "err"
    rollout                 \* wait_for_rollout: [pc, timeout, elapsed, polls, late, seen]

appVars    == <<phase, current_secret_index, secret_input, should_quit,
                deploy_statuses, deploy_progress, manifest, skip_extensions>>
phaseHist  == <<last, startPhase, advCount, backCount>>
pullVars   == <<images, permits, spawned, joined, task, sent, outcomes, waits, results>>
deployVars == <<async_rx, seq, executed, failed, loop, received, dropped, doneMsgs>>
healthVars == <<pod_statuses, health_done, health_failed, poller, recovery_attempts,
                deployment_names, cluster_pods>>
healthHist == <<recoveryEvents, deletions, crashSeen, observed, terminals, lateEvents, cycles,
                healthStarts, handled>>
wizVars    == <<secret_prompts, features, feature_cursor, collecting_feature_secrets,
                confirm_selected, config, pull_statuses, pull_progress, relayed>>
wizHist    == <<tokens, cancels, pullStarts>>
niVars     == <<env, ni>>
soloVars   == <<created, cas, rollout>>
wizAll     == <<wizVars, wizHist, niVars, soloVars>>
extVars    == <<healthVars, healthHist, wizAll, deployStarts>>
vars       == <<appVars, phaseHist, pullVars, deployVars, extVars>>

(***************************************************************************)
(* Bounds of the model.                                                    *)
(***************************************************************************)
MaxCursor   == 2    \* SpecPhase: largest secret cursor an App starts with
MaxInputLen == 1    \* SpecPhase: longest input buffer an App starts with
MaxOps      == 9    \* SpecPhase: App method calls in one run
MaxImages   == 5    \* SpecPull: most artifacts handed to pull_all
MaxPullWork == 7    \* SpecPull: artifacts + 2 * failing docker invocations of one run
MaxFailures == 1    \* SpecDeploy: most deploy steps that fail in one run

None == "None"

\* App.manifest
NoManifest ==
    [loaded |-> FALSE, images |-> <<>>, required_secrets |-> <<>>, optional_features |-> <<>>]
SomeManifest(imgs) ==
    [loaded |-> TRUE, images |-> imgs, required_secrets |-> <<>>, optional_features |-> <<>>]

(***************************************************************************)
(* Text: a string is a sequence of one-character strings.                  *)
(***************************************************************************)
ToLowerChar(c) ==
    CASE c = "A" -> "a" [] c = "B" -> "b" [] c = "C" -> "c" [] c = "D" -> "d"
      [] c = "E" -> "e" [] c = "F" -> "f" [] c = "G" -> "g" [] c = "H" -> "h"
      [] c = "I" -> "i" [] c = "J" -> "j" [] c = "K" -> "k" [] c = "L" -> "l"
      [] c = "M" -> "m" [] c = "N" -> "n" [] c = "O" -> "o" [] c = "P" -> "p"
      [] c = "Q" -> "q" [] c = "R" -> "r" [] c = "S" -> "s" [] c = "T" -> "t"
      [] c = "U" -> "u" [] c = "V" -> "v" [] c = "W" -> "w" [] c = "X" -> "x"
      [] c = "Y" -> "y" [] c = "Z" -> "z" [] OTHER -> c

\* str::to_lowercase
ToLowercase(s) == [i \in 1..Len(s) |-> ToLowerChar(s[i])]

\* str::contains
Contains(hay, needle) ==
    \E k \in 0..Len(hay) :
        /\ k + Len(needle) <= Len(hay)
        /\ \A j \in 1..Len(needle) : hay[k + j] = needle[j]

IsWhitespace(c) == c \in {" ", "\n", "\t", "\r"}

RECURSIVE TrimStart(_)
TrimStart(s) ==
    IF s # <<>> /\ IsWhitespace(Head(s)) THEN TrimStart(Tail(s)) ELSE s

RECURSIVE TrimEnd(_)
TrimEnd(s) ==
    IF s # <<>> /\ IsWhitespace(s[Len(s)])
    THEN TrimEnd(SubSeq(s, 1, Len(s) - 1)) ELSE s

\* str::trim
Trim(s) == TrimEnd(TrimStart(s))

(***************************************************************************)
(* Phase (app.rs:2-56)                                                     *)
(***************************************************************************)
PhaseOrder == <<"Preflight", "Secrets", "Features", "Confirm",
                "Pull", "Deploy", "Health", "Complete">>

Phases == {PhaseOrder[i] : i \in 1..Len(PhaseOrder)}

\* Phase::next with Confirm's successor taken to be Deploy
Phase_next_skipsPull(p) ==
    CASE p = "Preflight" -> "Secrets"
      [] p = "Secrets"   -> "Features"
      [] p = "Features"  -> "Confirm"
      [] p = "Confirm"   -> "Deploy"
      [] p = "Pull"      -> "Deploy"
      [] p = "Deploy"    -> "Health"
      [] p = "Health"    -> "Complete"
      [] p = "Complete"  -> None

\* Phase::next
Phase_next(p) ==
    CASE p = "Preflight" -> "Secrets"
      [] p = "Secrets"   -> "Features"
      [] p = "Features"  -> "Confirm"
      [] p = "Confirm"   -> "Pull"
      [] p = "Pull"      -> "Deploy"
      [] p = "Deploy"    -> "Health"
      [] p = "Health"    -> "Complete"
      [] p = "Complete"  -> None

\* App::advance: the phase it leaves and the value it returns
AdvancePhase(p) == IF Phase_next(p) # None THEN Phase_next(p) ELSE p
AdvanceRet(p)   == Phase_next(p) # None

AppSnapshot == [phase |-> phase, cursor |-> current_secret_index, input |-> secret_input]

\* App::advance called on the App
App_advance ==
    /\ advCount + backCount < MaxOps
    /\ phase' = AdvancePhase(phase)
    /\ last' = [op |-> "advance", pre |-> AppSnapshot, ret |-> AdvanceRet(phase)]
    /\ advCount' = advCount + 1
    /\ UNCHANGED <<current_secret_index, secret_input, should_quit, deploy_statuses,
                   deploy_progress, manifest, skip_extensions, startPhase, backCount>>
    /\ UNCHANGED <<pullVars, deployVars, extVars>>

\* App::back_to_secrets without its test of the phase
App_back_to_secrets_unguarded ==
    /\ advCount + backCount < MaxOps
    /\ last' = [op |-> "back", pre |-> AppSnapshot, ret |-> None]
    /\ backCount' = backCount + 1
    /\ phase' = "Secrets"
    /\ current_secret_index' = 0
    /\ secret_input' = <<>>
    /\ UNCHANGED <<should_quit, deploy_statuses, deploy_progress, manifest,
                   skip_extensions, startPhase, advCount>>
    /\ UNCHANGED <<pullVars, deployVars, extVars>>

\* App::back_to_secrets called on the App
App_back_to_secrets ==
    /\ advCount + backCount < MaxOps
    /\ last' = [op |-> "back", pre |-> AppSnapshot, ret |-> None]
    /\ backCount' = backCount + 1
    /\ IF phase = "Confirm"
       THEN /\ phase' = "Secrets"
            /\ current_secret_index' = 0
            /\ secret_input' = <<>>
       ELSE UNCHANGED <<phase, current_secret_index, secret_input>>
    /\ UNCHANGED <<should_quit, deploy_statuses, deploy_progress, manifest,
                   skip_extensions, startPhase, advCount>>
    /\ UNCHANGED <<pullVars, deployVars, extVars>>

\* The input buffers an App is started with: strings over {a} up to MaxInputLen
InputBuffers == UNION {[1..n -> {"a"}] : n \in 0..MaxInputLen}

\* Values of the variables a specification does not use
IdlePull ==
    /\ images = 0 /\ permits = 0 /\ spawned = 0 /\ joined = 0
    /\ task = <<>> /\ sent = <<>> /\ outcomes = <<>> /\ waits = <<>> /\ results = <<>>

IdleDeploy ==
    /\ async_rx = <<>> /\ seq = [pc |-> "unspawned", step_index |-> 0] /\ executed = <<>> /\ failed = {}
    /\ loop = None /\ received = <<>> /\ dropped = <<>> /\ doneMsgs = 0

IdleHealth ==
    /\ pod_statuses = <<>> /\ health_done = FALSE /\ health_failed = FALSE
    /\ poller = [pc |-> "unspawned", next |-> 1, all_healthy |-> TRUE,
                 unhealthy |-> <<>>, elapsed |-> 0]
    /\ recovery_attempts = <<>> /\ recoveryEvents = <<>> /\ deletions = <<>>
    /\ crashSeen = <<>>
    /\ deployment_names = <<>> /\ cluster_pods = <<>>
    /\ observed = <<>> /\ terminals = <<>> /\ lateEvents = 0 /\ cycles = 0
    /\ healthStarts = 0 /\ handled = 0

\* Option<String>: None, or Some of a sequence of characters
NoneStr == [some |-> FALSE, text |-> <<>>]
SomeStr(s) == [some |-> TRUE, text |-> s]

\* InstallConfig as App::new leaves it (app.rs:144-149); auth_token counts the
\* generated tokens, 0 being the empty string
NewConfig ==
    [oauth_token |-> NoneStr, api_key |-> NoneStr, voyage_api_key |-> NoneStr,
     agent_name |-> "Baker", auth_token |-> 0]

IdleWiz ==
    /\ secret_prompts = <<>> /\ features = <<>> /\ feature_cursor = 0
    /\ collecting_feature_secrets = FALSE /\ confirm_selected = 0
    /\ config = NewConfig
    /\ pull_statuses = <<>> /\ pull_progress = [done |-> 0, total |-> 0]
    /\ relayed = <<>>
    /\ tokens = 0 /\ cancels = 0 /\ pullStarts = 0

\* run_non_interactive not called
IdleNi ==
    /\ env = [cluster_up |-> TRUE, oauth |-> FALSE, api_key |-> FALSE, github |-> FALSE,
              manifest_file |-> "none"]
    /\ ni = [pc |-> "not_called", exit |-> 0, k |-> 0, applied |-> <<>>]

\* create_all_secrets and wait_for_rollout are not called
IdleSolo ==
    /\ created = <<>> /\ cas = "not_called"
    /\ rollout = [pc |-> "not_called", timeout |-> 0, elapsed |-> 0, polls |-> 0,
                  late |-> 0, seen |-> <<>>]

IdleExt == IdleHealth /\ IdleWiz /\ IdleNi /\ IdleSolo /\ deployStarts = 0

IdlePhaseHist ==
    /\ last = [op |-> None, pre |-> None, ret |-> None]
    /\ startPhase = phase /\ advCount = 0 /\ backCount = 0

\* Any App: the fields are public, and the unit tests of app.rs set the phase directly
InitPhase ==
    /\ phase \in Phases
    /\ current_secret_index \in 0..MaxCursor
    /\ secret_input \in InputBuffers
    /\ should_quit = FALSE
    /\ deploy_statuses = <<>>
    /\ deploy_progress = [done |-> 0, total |-> 0]
    /\ manifest = NoManifest
    /\ skip_extensions = FALSE
    /\ IdlePhaseHist
    /\ IdleExt
    /\ IdlePull
    /\ IdleDeploy

NextPhase == App_advance \/ App_back_to_secrets

SpecPhase == InitPhase /\ [][NextPhase]_vars

(***************************************************************************)
(* C1: for every phase p other than Complete, advance() sets the phase to  *)
(* the successor of p in the order Preflight, Secrets, Features, Confirm,  *)
(* Pull, Deploy, Health, Complete and returns true; at Complete it leaves  *)
(* the phase unchanged and returns false.  Starting at Preflight, the      *)
(* phase is Complete exactly after 7 or more successive advances.          *)
(***************************************************************************)
C1_AdvanceFollowsOrder ==
    /\ last.op = "advance" =>
         /\ last.pre.phase # "Complete" =>
              /\ \E i \in 1..7 : /\ PhaseOrder[i] = last.pre.phase
                                 /\ phase = PhaseOrder[i + 1]
              /\ last.ret = TRUE
         /\ last.pre.phase = "Complete" =>
              /\ phase = "Complete"
              /\ last.ret = FALSE
    /\ (startPhase = "Preflight" /\ backCount = 0) =>
         /\ advCount <= 7 => phase = PhaseOrder[advCount + 1]
         /\ (phase = "Complete" <=> advCount >= 7)

\* Seven advances from Preflight have reached Complete, and an eighth returned false
C1_Witness ==
    /\ startPhase = "Preflight" /\ backCount = 0 /\ advCount = 8
    /\ phase = "Complete"
    /\ last.op = "advance" /\ last.pre.phase = "Complete" /\ last.ret = FALSE

(***************************************************************************)
(* C2: back_to_secrets() changes the phase if and only if the phase is     *)
(* Confirm: from Confirm it sets the phase to Secrets, the secret cursor   *)
(* to 0 and the input buffer to empty; from every other phase it leaves    *)
(* phase, cursor and input buffer as they were.                            *)
(***************************************************************************)
C2_BackOnlyFromConfirm ==
    last.op = "back" =>
        /\ (phase # last.pre.phase <=> last.pre.phase = "Confirm")
        /\ last.pre.phase = "Confirm" =>
              /\ phase = "Secrets"
              /\ current_secret_index = 0
              /\ secret_input = <<>>
        /\ last.pre.phase # "Confirm" =>
              /\ phase = last.pre.phase
              /\ current_secret_index = last.pre.cursor
              /\ secret_input = last.pre.input

\* back_to_secrets has acted at Confirm on a non-zero cursor and a non-empty buffer
C2_Witness ==
    /\ last.op = "back"
    /\ last.pre.phase = "Confirm"
    /\ last.pre.cursor > 0
    /\ last.pre.input # <<>>
    /\ phase = "Secrets"

(***************************************************************************)
(* Pull coordinator (images.rs)                                            *)
(***************************************************************************)
MAX_CONCURRENT == 4
MAX_RETRIES == 3

\* The signatures is_local_docker_error searches for, as written in the source
NeedleCredential ==  \* "credential"
    <<"c","r","e","d","e","n","t","i","a","l">>

NeedleNotFoundInPath ==  \* "not found in PATH"
    <<"n","o","t"," ","f","o","u","n","d"," ","i","n"," ","P","A","T","H">>

NeedleDaemonNotRunning ==  \* "docker daemon is not running"
    <<"d","o","c","k","e","r"," ","d","a","e","m","o","n"," ","i","s"," ",
      "n","o","t"," ","r","u","n","n","i","n","g">>

NeedlePermissionDenied ==  \* "permission denied"
    <<"p","e","r","m","i","s","s","i","o","n"," ","d","e","n","i","e","d">>

NeedleCannotConnect ==  \* "cannot connect to the docker daemon"
    <<"c","a","n","n","o","t"," ","c","o","n","n","e","c","t"," ","t","o",
      " ","t","h","e"," ","d","o","c","k","e","r"," ","d","a","e","m","o",
      "n">>

\* is_local_docker_error: the needles are searched in the lowercased text
is_local_docker_error(stderr) ==
    LET lower == ToLowercase(stderr) IN
        \/ Contains(lower, NeedleCredential)
        \/ Contains(lower, NeedleNotFoundInPath)
        \/ Contains(lower, NeedleDaemonNotRunning)
        \/ Contains(lower, NeedlePermissionDenied)
        \/ Contains(lower, NeedleCannotConnect)

\* What docker wrote to stderr in the failing pulls of the model
StderrTimeout ==  \* " net timeout\n"
    <<" ","n","e","t"," ","t","i","m","e","o","u","t","\n">>

StderrDenied ==  \* "Permission denied\n"
    <<"P","e","r","m","i","s","s","i","o","n"," ","d","e","n","i","e","d",
      "\n">>

StderrNoHelper ==  \* "pass not found in PATH\n"
    <<"p","a","s","s"," ","n","o","t"," ","f","o","u","n","d"," ","i","n",
      " ","P","A","T","H","\n">>

StderrTexts == {StderrTimeout, StderrDenied, StderrNoHelper}

\* How one `docker pull` can end: it exits 0, it cannot be launched (output()
\* returns Err), or it exits non-zero having written a text to stderr
DockerOutcomes ==
    {[kind |-> "success", stderr |-> <<>>], [kind |-> "spawn_err", stderr |-> <<>>]}
    \cup {[kind |-> "exit", stderr |-> t] : t \in StderrTexts}

NoResult  == [kind |-> "none", err |-> <<>>]
Ok        == [kind |-> "Ok", err |-> <<>>]
Err(msg)  == [kind |-> "Err", err |-> msg]

\* Duration::from_secs(2u64.pow(attempt)) counted from attempt 0
Backoff_fromZero(attempt) == 2 ^ (attempt - 1)

\* Duration::from_secs(2u64.pow(attempt)), in seconds
Backoff(attempt) == 2 ^ attempt

\* pull_one's loop body keeping the untrimmed stderr as the final error
PullOneAttempt_untrimmed(attempt, outcome) ==
    IF outcome.kind = "spawn_err"
    THEN [returns |-> TRUE, result |-> Err(<<"failed to run docker: ", "io error">>)]
    ELSE IF outcome.kind = "success"
    THEN [returns |-> TRUE, result |-> Ok]
    ELSE IF is_local_docker_error(outcome.stderr)
    THEN [returns |-> TRUE,
          result |-> Err(<<"docker config error (skipping retries): ">>
                         \o Trim(outcome.stderr))]
    ELSE IF attempt < MAX_RETRIES
    THEN [returns |-> FALSE, result |-> NoResult]
    ELSE [returns |-> TRUE, result |-> Err(outcome.stderr)]

\* One pass of pull_one's loop body for the attempt numbered `attempt`, whose
\* docker invocation ended with `outcome`: whether pull_one returns, and with what
PullOneAttempt(attempt, outcome) ==
    IF outcome.kind = "spawn_err"
    THEN [returns |-> TRUE, result |-> Err(<<"failed to run docker: ", "io error">>)]
    ELSE IF outcome.kind = "success"
    THEN [returns |-> TRUE, result |-> Ok]
    ELSE IF is_local_docker_error(outcome.stderr)
    THEN [returns |-> TRUE,
          result |-> Err(<<"docker config error (skipping retries): ">>
                         \o Trim(outcome.stderr))]
    ELSE IF attempt < MAX_RETRIES
    THEN [returns |-> FALSE, result |-> NoResult]
    ELSE [returns |-> TRUE, result |-> Err(Trim(outcome.stderr))]

Artifacts == 1..images

\* Docker invocations of the run that did not succeed
RECURSIVE FailuresIn(_)
FailuresIn(os) ==
    IF os = <<>> THEN 0
    ELSE (IF Head(os).kind = "success" THEN 0 ELSE 1) + FailuresIn(Tail(os))

RECURSIVE TotalFailures(_)
TotalFailures(n) == IF n = 0 THEN 0 ELSE FailuresIn(outcomes[n]) + TotalFailures(n - 1)

\* The bound on the failing docker invocations of a run
FailureAllowed ==
    images + 2 * (TotalFailures(images) + 1) <= MaxPullWork

\* semaphore.acquire_owned() completing whether or not a permit is free
PermitAvailable_always == TRUE

\* semaphore.acquire_owned().await completes when a permit is free
PermitAvailable == permits > 0

\* pull_all's for loop: acquire a permit, then spawn the artifact's task
Spawn ==
    /\ spawned < images
    /\ PermitAvailable
    /\ permits' = permits - 1
    /\ spawned' = spawned + 1
    /\ task' = [task EXCEPT ![spawned + 1].pc = "start"]
    /\ UNCHANGED <<images, joined, sent, outcomes, waits, results>>
    /\ UNCHANGED <<appVars, phaseHist, deployVars, extVars>>

\* The task sends Started and enters pull_one
TaskStart(i) ==
    /\ task[i].pc = "start"
    /\ sent' = [sent EXCEPT ![i] = Append(@, [type |-> "Started", index |-> i,
                                               error |-> <<>>, attempt |-> 0])]
    /\ task' = [task EXCEPT ![i].pc = "docker", ![i].attempt = 1]
    /\ UNCHANGED <<images, permits, spawned, joined, outcomes, waits, results>>
    /\ UNCHANGED <<appVars, phaseHist, deployVars, extVars>>

\* pull_one: the docker invocation of the current attempt ends
DockerEnds(i) ==
    /\ task[i].pc = "docker"
    /\ \E o \in DockerOutcomes :
        LET r == PullOneAttempt(task[i].attempt, o) IN
        /\ o.kind # "success" => FailureAllowed
        /\ outcomes' = [outcomes EXCEPT ![i] = Append(@, o)]
        /\ IF r.returns
           THEN /\ task' = [task EXCEPT ![i].pc = "report", ![i].result = r.result]
                /\ waits' = waits
           ELSE /\ task' = [task EXCEPT ![i].pc = "sleep"]
                /\ waits' = [waits EXCEPT ![i] = Append(@, Backoff(task[i].attempt))]
    /\ UNCHANGED <<images, permits, spawned, joined, sent, results>>
    /\ UNCHANGED <<appVars, phaseHist, deployVars, extVars>>

\* pull_one: the backoff sleep ends and the loop continues with the next attempt
BackoffEnds(i) ==
    /\ task[i].pc = "sleep"
    /\ task' = [task EXCEPT ![i].pc = "docker", ![i].attempt = @ + 1]
    /\ UNCHANGED <<images, permits, spawned, joined, sent, outcomes, waits, results>>
    /\ UNCHANGED <<appVars, phaseHist, deployVars, extVars>>

\* The events a task sends for pull_one's result, sending nothing for an Err
TerminalEvents_okOnly(i, result) ==
    IF result.kind = "Ok"
    THEN <<[type |-> "Completed", index |-> i, error |-> <<>>, attempt |-> 0]>>
    ELSE <<>>

\* The events a task sends for pull_one's result
TerminalEvents(i, result) ==
    IF result.kind = "Ok"
    THEN <<[type |-> "Completed", index |-> i, error |-> <<>>, attempt |-> 0]>>
    ELSE <<[type |-> "Failed", index |-> i, error |-> result.err,
            attempt |-> MAX_RETRIES]>>

\* The task reports pull_one's result
TaskReport(i) ==
    /\ task[i].pc = "report"
    /\ sent' = [sent EXCEPT ![i] = @ \o TerminalEvents(i, task[i].result)]
    /\ task' = [task EXCEPT ![i].pc = "release"]
    /\ UNCHANGED <<images, permits, spawned, joined, outcomes, waits, results>>
    /\ UNCHANGED <<appVars, phaseHist, deployVars, extVars>>

\* drop(permit); the task ends with its result
TaskRelease(i) ==
    /\ task[i].pc = "release"
    /\ permits' = permits + 1
    /\ task' = [task EXCEPT ![i].pc = "done"]
    /\ UNCHANGED <<images, spawned, joined, sent, outcomes, waits, results>>
    /\ UNCHANGED <<appVars, phaseHist, deployVars, extVars>>

\* pull_all's second loop: await the handles in order
Join ==
    /\ spawned = images
    /\ joined < images
    /\ task[joined + 1].pc = "done"
    /\ joined' = joined + 1
    /\ results' = Append(results, task[joined + 1].result)
    /\ UNCHANGED <<images, permits, spawned, task, sent, outcomes, waits>>
    /\ UNCHANGED <<appVars, phaseHist, deployVars, extVars>>

IdleApp ==
    /\ phase = "Pull"
    /\ current_secret_index = 0
    /\ secret_input = <<>>
    /\ should_quit = FALSE
    /\ deploy_statuses = <<>>
    /\ deploy_progress = [done |-> 0, total |-> 0]
    /\ manifest = NoManifest
    /\ skip_extensions = FALSE

\* pull_all called with 0..MaxImages artifacts
InitPull ==
    /\ images \in 0..MaxImages
    /\ permits = MAX_CONCURRENT
    /\ spawned = 0
    /\ joined = 0
    /\ task = [i \in 1..images |-> [pc |-> "unspawned", attempt |-> 0, result |-> NoResult]]
    /\ sent = [i \in 1..images |-> <<>>]
    /\ outcomes = [i \in 1..images |-> <<>>]
    /\ waits = [i \in 1..images |-> <<>>]
    /\ results = <<>>
    /\ IdleApp
    /\ IdlePhaseHist
    /\ IdleExt
    /\ IdleDeploy

NextPull ==
    \/ Spawn
    \/ Join
    \/ \E i \in Artifacts :
        \/ TaskStart(i)
        \/ DockerEnds(i)
        \/ BackoffEnds(i)
        \/ TaskReport(i)
        \/ TaskRelease(i)

SpecPull == InitPull /\ [][NextPull]_vars

(***************************************************************************)
(* Properties of the pull coordinator                                      *)
(***************************************************************************)
CountEvents(events, types) ==
    Cardinality({k \in 1..Len(events) : events[k].type \in types})

TerminalTypes == {"Completed", "Failed"}

\* The artifacts in flight: Started sent, terminal event not yet sent
InFlight ==
    {i \in Artifacts : /\ CountEvents(sent[i], {"Started"}) > 0
                       /\ CountEvents(sent[i], TerminalTypes) = 0}

\* pull_one has returned for artifact i
Returned(i) == task[i].pc \in {"report", "release", "done"}

\* The artifact's task has sent its terminal event
Reported(i) == task[i].pc \in {"release", "done"}

LocalSignatures ==
    {NeedleCredential, NeedleNotFoundInPath, NeedleDaemonNotRunning,
     NeedlePermissionDenied, NeedleCannotConnect}

\* The text contains one of the local-configuration signatures, in any letter case
HasLocalSignature(text) ==
    \E n \in LocalSignatures : Contains(ToLowercase(text), ToLowercase(n))

\* The stderr texts of the model with and without such a signature
SignatureTexts == {t \in StderrTexts : HasLocalSignature(t)}
TransientTexts == {t \in StderrTexts : ~HasLocalSignature(t)}

\* Every docker invocation made so far for artifact i exited with a failure whose
\* stderr carries no local-configuration signature
AllAttemptsFailTransient(i) ==
    /\ Len(outcomes[i]) >= 1
    /\ \A k \in 1..Len(outcomes[i]) :
        /\ outcomes[i][k].kind = "exit"
        /\ outcomes[i][k].stderr \in TransientTexts

\* e is t without the whitespace at its two ends
IsTrimmed(e, t) ==
    /\ e = <<>> \/ (~IsWhitespace(e[1]) /\ ~IsWhitespace(e[Len(e)]))
    /\ \E a \in 0..Len(t) :
        /\ a + Len(e) <= Len(t)
        /\ \A j \in 1..Len(e) : t[a + j] = e[j]
        /\ \A j \in 1..Len(t) : (j <= a \/ j > a + Len(e)) => IsWhitespace(t[j])

LastOf(s) == s[Len(s)]

(***************************************************************************)
(* C3: at no instant are more than 4 pulls in flight in pull_all, for any  *)
(* number of artifacts and any interleaving of the tasks.                  *)
(***************************************************************************)
C3_AtMostFourInFlight == Cardinality(InFlight) <= 4

\* Four pulls are in flight while a fifth artifact waits for a permit
C3_Witness ==
    /\ images > 4
    /\ spawned = 4
    /\ Cardinality(InFlight) = 4

(***************************************************************************)
(* C4: every artifact yields exactly one terminal event (Completed or      *)
(* Failed): never two, and one once its task has reported.                 *)
(***************************************************************************)
C4_ExactlyOneTerminal ==
    \A i \in Artifacts :
        /\ CountEvents(sent[i], TerminalTypes) <= 1
        /\ Reported(i) => CountEvents(sent[i], TerminalTypes) = 1
        /\ (joined = images) => CountEvents(sent[i], TerminalTypes) = 1

\* pull_all has returned with one artifact Completed and another Failed
C4_Witness ==
    /\ images >= 2
    /\ joined = images
    /\ \E i, j \in Artifacts :
        /\ CountEvents(sent[i], {"Completed"}) = 1
        /\ CountEvents(sent[j], {"Failed"}) = 1

(***************************************************************************)
(* C5: an artifact whose every attempt fails with a stderr that carries no *)
(* local-configuration signature is attempted exactly 3 times and is then  *)
(* reported Failed with the trimmed stderr of its last attempt.            *)
(***************************************************************************)
C5_ThreeAttemptsThenFailed ==
    \A i \in Artifacts :
        AllAttemptsFailTransient(i) =>
            /\ Len(outcomes[i]) <= 3
            /\ Returned(i) =>
                /\ Len(outcomes[i]) = 3
                /\ task[i].result.kind = "Err"
                /\ IsTrimmed(task[i].result.err, LastOf(outcomes[i]).stderr)
            /\ Reported(i) =>
                /\ LastOf(sent[i]).type = "Failed"
                /\ IsTrimmed(LastOf(sent[i]).error, LastOf(outcomes[i]).stderr)

\* An artifact failed three times transiently and was reported Failed with an
\* error text shorter than the stderr of its last attempt
C5_Witness ==
    \E i \in Artifacts :
        /\ AllAttemptsFailTransient(i)
        /\ Len(outcomes[i]) = 3
        /\ task[i].pc = "done"
        /\ LastOf(sent[i]).type = "Failed"
        /\ LastOf(sent[i]).error # LastOf(outcomes[i]).stderr

(***************************************************************************)
(* C6, as claimed: for an artifact whose attempts all fail transiently the *)
(* waits between attempts are 2, 4, 8 seconds.                             *)
(***************************************************************************)
C6_WaitsTwoFourEight ==
    \A i \in Artifacts :
        (AllAttemptsFailTransient(i) /\ Returned(i)) => waits[i] = <<2, 4, 8>>

(***************************************************************************)
(* C6, amended: for an artifact whose attempts all fail transiently the    *)
(* wait before each retry is 2^attempt seconds with attempt counted from   *)
(* 1, strictly increasing; the three attempts are separated by two waits,  *)
(* of 2 and 4 seconds, and no wait follows the third attempt.              *)
(***************************************************************************)
C6_WaitsTwoFour ==
    \A i \in Artifacts :
        AllAttemptsFailTransient(i) =>
            /\ \A k \in 1..Len(waits[i]) : waits[i][k] = 2 ^ k
            /\ \A k \in 1..(Len(waits[i]) - 1) : waits[i][k] < waits[i][k + 1]
            /\ task[i].pc = "sleep" => Len(waits[i]) = Len(outcomes[i])
            /\ Returned(i) => waits[i] = <<2, 4>>

\* An artifact has failed transiently three times, having waited 2 and 4 seconds
C6_Witness ==
    \E i \in Artifacts :
        /\ AllAttemptsFailTransient(i)
        /\ Returned(i)
        /\ Len(outcomes[i]) = 3
        /\ waits[i] = <<2, 4>>

(***************************************************************************)
(* C7: an artifact whose pull fails with a stderr that carries a           *)
(* local-configuration signature is attempted exactly once: pull_one       *)
(* returns after that attempt without a backoff wait, and exactly one      *)
(* Failed event and no Retrying event is sent for it.                      *)
(***************************************************************************)
C7_LocalErrorAttemptedOnce ==
    \A i \in Artifacts :
        ( /\ Len(outcomes[i]) >= 1
          /\ outcomes[i][1].kind = "exit"
          /\ outcomes[i][1].stderr \in SignatureTexts ) =>
            /\ Len(outcomes[i]) = 1
            /\ waits[i] = <<>>
            /\ Returned(i)
            /\ CountEvents(sent[i], {"Retrying"}) = 0
            /\ Reported(i) => CountEvents(sent[i], {"Failed"}) = 1

(***************************************************************************)
(* Deploy phase (main.rs): start_deploy_phase, run_deploy_sequence, the    *)
(* AsyncMsg channel and the control loop while the phase is Deploy         *)
(***************************************************************************)
\* ManifestImage: component and required flag
Image(component, required) == [component |-> component, required |-> required]

\* The optional images of default_manifest(), in its order (manifest.rs:112-115)
OptionalComponents == <<"sysadmin", "voice", "ext-toolbox", "ext-browser">>

RECURSIVE SelectImages(_, _)
SelectImages(components, chosen) ==
    IF components = <<>> THEN <<>>
    ELSE (IF Head(components) \in chosen THEN <<Image(Head(components), FALSE)>> ELSE <<>>)
         \o SelectImages(Tail(components), chosen)

\* The manifests of the model: a required image followed by any combination of the
\* optional images
Manifests ==
    {SomeManifest(<<Image("brain", TRUE)>> \o SelectImages(OptionalComponents, chosen)) :
        chosen \in SUBSET {OptionalComponents[k] : k \in 1..Len(OptionalComponents)}}

\* The twelve steps every deploy has (main.rs:682-693 and 763-821)
FixedSteps ==
    <<"Namespace", "Secrets", "ConfigMap", "PVCs", "RBAC", "NATS", "Qdrant",
      "Brain", "Worker", "Gateway", "UI", "Network Policies">>

\* start_deploy_phase's loop over the manifest images (main.rs:697-705)
RECURSIVE TableExtensionLabels(_)
TableExtensionLabels(imgs) ==
    IF imgs = <<>> THEN <<>>
    ELSE (IF ~Head(imgs).required
          THEN CASE Head(imgs).component = "voice"    -> <<"Voice">>
                 [] Head(imgs).component = "sysadmin" -> <<"SysAdmin">>
                 [] OTHER                             -> <<>>
          ELSE <<>>)
         \o TableExtensionLabels(Tail(imgs))

\* The step list start_deploy_phase builds (main.rs:680-706)
TableSteps(m, skip) ==
    FixedSteps \o (IF ~skip THEN TableExtensionLabels(m) ELSE <<>>)

\* run_deploy_sequence's loop over the manifest images (main.rs:825-852)
RECURSIVE SequenceExtensionLabels(_)
SequenceExtensionLabels(imgs) ==
    IF imgs = <<>> THEN <<>>
    ELSE (IF Head(imgs).required THEN <<>>
          ELSE CASE Head(imgs).component = "voice"       -> <<"Voice">>
                 [] Head(imgs).component = "sysadmin"    -> <<"SysAdmin">>
                 [] Head(imgs).component = "ext-toolbox" -> <<"Toolbox">>
                 [] Head(imgs).component = "ext-browser" -> <<"Browser">>
                 [] OTHER                                -> <<>>)
         \o SequenceExtensionLabels(Tail(imgs))

\* The steps run_deploy_sequence executes once it has a cluster client, in order
SequenceSteps(m, skip) ==
    FixedSteps \o (IF ~skip THEN SequenceExtensionLabels(m) ELSE <<>>)

Pending == [kind |-> "Pending", msg |-> ""]
Done == [kind |-> "Done", msg |-> ""]
Failed(e) == [kind |-> "Failed", msg |-> e]

StepOk == [ok |-> TRUE, err |-> ""]
StepErr(e) == [ok |-> FALSE, err |-> e]

DeployStep(index, result) == [type |-> "DeployStep", index |-> index, result |-> result]
DeployDone == [type |-> "DeployDone", index |-> 0, result |-> StepOk]

\* report_step! leaving step_index as it was
report_step_sameIndex(step_index, result) ==
    [msg |-> DeployStep(step_index, result), step_index |-> step_index]

\* report_step!: the message it sends and the step_index it leaves
report_step(step_index, result) ==
    [msg |-> DeployStep(step_index, result), step_index |-> step_index + 1]

\* start_deploy_phase: the status table, the progress pair, and the spawned sequencer
start_deploy_phase ==
    IF ~manifest.loaded THEN UNCHANGED <<deploy_statuses, deploy_progress, seq, deployStarts>> ELSE
    /\ deployStarts' = deployStarts + 1
    /\ deploy_statuses' = [k \in 1..Len(TableSteps(manifest.images, skip_extensions)) |->
                              [label |-> TableSteps(manifest.images, skip_extensions)[k],
                               status |-> Pending]]
    /\ deploy_progress' = [done |-> 0, total |-> Len(TableSteps(manifest.images, skip_extensions))]
    /\ seq' = [pc |-> "connect", step_index |-> 0]

\* handle_async_msg for the messages of the deploy sequencer
handle_async_msg(msg) ==
    IF msg.type = "DeployStep"
    THEN /\ IF msg.index < Len(deploy_statuses)
            THEN /\ deploy_statuses' =
                        [deploy_statuses EXCEPT ![msg.index + 1].status =
                            IF msg.result.ok THEN Done ELSE Failed(msg.result.err)]
                 /\ deploy_progress' = [deploy_progress EXCEPT !.done = @ + 1]
                 /\ dropped' = dropped
            ELSE /\ dropped' = Append(dropped, msg.index)
                 /\ UNCHANGED <<deploy_statuses, deploy_progress>>
         /\ phase' = phase
    ELSE /\ phase' = AdvancePhase(phase)
         /\ UNCHANGED <<deploy_statuses, deploy_progress, dropped>>

Keys == {"none", "ctrl_c", "q", "other"}

\* main's key handling (main.rs:63-75) with handle_key for the phases where q
\* quits and no other key changes the App (main.rs:245-288): the value of
\* should_quit it leaves
AfterKey(key) ==
    IF key = "ctrl_c" THEN TRUE
    ELSE IF key = "q" /\ ~should_quit
               /\ phase \in {"Preflight", "Pull", "Deploy", "Health", "Complete"}
    THEN TRUE
    ELSE should_quit

\* The control loop polls the keyboard
LoopKey ==
    /\ loop = "poll"
    /\ phase = "Deploy"
    /\ \E key \in Keys : should_quit' = AfterKey(key)
    /\ loop' = "drain"
    /\ UNCHANGED <<phase, current_secret_index, secret_input, deploy_statuses,
                   deploy_progress, manifest, skip_extensions>>
    /\ UNCHANGED <<async_rx, seq, executed, failed, received, dropped, doneMsgs>>
    /\ UNCHANGED <<phaseHist, pullVars, extVars>>

\* The control loop dequeues one message and applies it
LoopRecv ==
    /\ loop = "drain"
    /\ async_rx # <<>>
    /\ handle_async_msg(Head(async_rx))
    /\ async_rx' = Tail(async_rx)
    /\ received' = Append(received, Head(async_rx))
    /\ doneMsgs' = doneMsgs + (IF Head(async_rx).type = "DeployDone" THEN 1 ELSE 0)
    /\ UNCHANGED <<current_secret_index, secret_input, should_quit, manifest,
                   skip_extensions, seq, executed, failed, loop>>
    /\ UNCHANGED <<phaseHist, pullVars, extVars>>

\* try_recv finds the channel empty; handle_auto_advance runs (for Deploy: start the
\* deploy if the status table is empty); the loop ends if should_quit is set
LoopAutoAdvance ==
    /\ loop = "drain"
    /\ async_rx = <<>>
    /\ IF phase = "Deploy" /\ deploy_statuses = <<>>
       THEN start_deploy_phase
       ELSE UNCHANGED <<deploy_statuses, deploy_progress, seq, deployStarts>>
    /\ loop' = IF should_quit \/ phase # "Deploy" THEN "stopped" ELSE "poll"
    /\ UNCHANGED <<phase, current_secret_index, secret_input, should_quit, manifest,
                   skip_extensions>>
    /\ UNCHANGED <<async_rx, executed, failed, received, dropped, doneMsgs>>
    /\ UNCHANGED <<phaseHist, pullVars, healthVars, healthHist, wizAll>>

\* The connect step going on to the resource steps after reporting its failure
SeqConnect_continues ==
    /\ seq.pc = "connect"
    /\ \/ /\ seq' = [seq EXCEPT !.pc = "steps"]
          /\ UNCHANGED <<async_rx, failed>>
       \/ LET r == report_step(seq.step_index, StepErr("no cluster")) IN
          /\ async_rx' = Append(async_rx, r.msg)
          /\ failed' = failed \cup {seq.step_index}
          /\ seq' = [pc |-> "steps", step_index |-> r.step_index]
    /\ UNCHANGED <<appVars, phaseHist, pullVars, extVars>>
    /\ UNCHANGED <<executed, loop, received, dropped, doneMsgs>>

\* kube::Client::try_default succeeds, or fails: the failure is reported as step 0
SeqConnect ==
    /\ seq.pc = "connect"
    /\ \/ /\ seq' = [seq EXCEPT !.pc = "steps"]
          /\ UNCHANGED <<async_rx, failed>>
       \/ LET r == report_step(seq.step_index, StepErr("no cluster")) IN
          /\ async_rx' = Append(async_rx, r.msg)
          /\ failed' = failed \cup {seq.step_index}
          /\ seq' = [pc |-> "complete", step_index |-> r.step_index]
    /\ UNCHANGED <<appVars, phaseHist, pullVars, extVars>>
    /\ UNCHANGED <<executed, loop, received, dropped, doneMsgs>>

\* The sequencer executes its next step and reports the result; after the last
\* step only the completion signal is left
SeqStep ==
    /\ seq.pc = "steps"
    /\ Len(executed) < Len(SequenceSteps(manifest.images, skip_extensions))
    /\ \E result \in {StepOk, StepErr("apply failed")} :
        LET r == report_step(seq.step_index, result) IN
        /\ ~result.ok => Cardinality(failed) < MaxFailures
        /\ async_rx' = Append(async_rx, r.msg)
        /\ failed' = IF result.ok THEN failed ELSE failed \cup {seq.step_index}
        /\ seq' = [pc |-> IF Len(executed) + 1 = Len(SequenceSteps(manifest.images, skip_extensions))
                          THEN "complete" ELSE "steps",
                   step_index |-> r.step_index]
    /\ executed' = Append(executed, SequenceSteps(manifest.images, skip_extensions)[Len(executed) + 1])
    /\ UNCHANGED <<appVars, phaseHist, pullVars, extVars>>
    /\ UNCHANGED <<loop, received, dropped, doneMsgs>>

\* tx.send(AsyncMsg::DeployDone)
SeqComplete ==
    /\ seq.pc = "complete"
    /\ async_rx' = Append(async_rx, DeployDone)
    /\ seq' = [seq EXCEPT !.pc = "finished"]
    /\ UNCHANGED <<appVars, phaseHist, pullVars, extVars>>
    /\ UNCHANGED <<executed, failed, loop, received, dropped, doneMsgs>>

\* The control loop enters Deploy with a loaded manifest and an empty status table
InitDeploy ==
    /\ phase = "Deploy"
    /\ current_secret_index = 0
    /\ secret_input = <<>>
    /\ should_quit = FALSE
    /\ deploy_statuses = <<>>
    /\ deploy_progress = [done |-> 0, total |-> 0]
    /\ manifest \in Manifests
    /\ skip_extensions \in BOOLEAN
    /\ async_rx = <<>>
    /\ seq = [pc |-> "unspawned", step_index |-> 0]
    /\ executed = <<>>
    /\ failed = {}
    /\ loop = "poll"
    /\ received = <<>>
    /\ dropped = <<>>
    /\ doneMsgs = 0
    /\ IdlePhaseHist
    /\ IdleExt
    /\ IdlePull

NextDeploy ==
    \/ LoopKey
    \/ LoopRecv
    \/ LoopAutoAdvance
    \/ SeqConnect
    \/ SeqStep
    \/ SeqComplete

SpecDeploy == InitDeploy /\ [][NextDeploy]_vars

(***************************************************************************)
(* Properties of the deploy sequencer                                      *)
(***************************************************************************)
\* Every message the sequencer has sent, in the order sent
Stream == received \o async_rx

IsStepMsg(m) == m.type = "DeployStep"
IsFailedStepMsg(m) == m.type = "DeployStep" /\ ~m.result.ok

\* try_default failed: the sequencer reported without executing a step
ConnectFailed == executed = <<>> /\ seq.pc \in {"complete", "finished"}

\* The sequencer has a cluster client
ReachedCluster == seq.pc = "steps" \/ executed # <<>>

HasStatus(entry, kind) == entry.status.kind = kind

(***************************************************************************)
(* C8: the step events are emitted in the manifest-derived step order: the *)
(* indices sent, and so those the control loop receives, are 0, 1, 2, ...  *)
(* without gap, repeat or reordering, one per executed step; exactly one   *)
(* sequence-complete signal is emitted, after the last step event.         *)
(***************************************************************************)
C8_StepEventsInOrder ==
    /\ \A k \in 1..Len(Stream) :
        /\ Stream[k].type = "DeployStep" => Stream[k].index = k - 1
        /\ Stream[k].type = "DeployDone" => k = Len(Stream)
    /\ \A k \in 1..Len(received) :
        received[k].type = "DeployStep" => received[k].index = k - 1
    /\ seq.pc = "finished" <=> (Stream # <<>> /\ LastOf(Stream).type = "DeployDone")
    /\ doneMsgs <= 1
    /\ Len(executed) <= Len(SequenceSteps(manifest.images, skip_extensions))
    /\ executed = SubSeq(SequenceSteps(manifest.images, skip_extensions), 1, Len(executed))
    /\ Len(SelectSeq(Stream, IsStepMsg)) = IF ConnectFailed THEN 1 ELSE Len(executed)
    /\ (seq.pc \in {"complete", "finished"} /\ ~ConnectFailed) =>
            executed = SequenceSteps(manifest.images, skip_extensions)

\* All sixteen steps of a manifest with every optional image were executed, one of
\* them failed, and the control loop has received the sixteen events and the signal
C8_Witness ==
    /\ seq.pc = "finished"
    /\ async_rx = <<>>
    /\ Len(executed) = 16
    /\ failed # {}
    /\ Len(received) = 17
    /\ doneMsgs = 1

(***************************************************************************)
(* C9: a failed deploy step never halts the sequence: all later steps are  *)
(* still executed; every failing step the control loop has handled is      *)
(* recorded as Failed in the status table, and the done-counter counts it  *)
(* like a successful step.                                                 *)
(***************************************************************************)
C9_FailedStepRecorded ==
    /\ (seq.pc \in {"complete", "finished"} /\ ~ConnectFailed) =>
            /\ executed = SequenceSteps(manifest.images, skip_extensions)
            /\ Len(SelectSeq(Stream, IsStepMsg)) = Len(executed)
    /\ \A k \in 1..Len(received) :
        IsFailedStepMsg(received[k]) =>
            /\ received[k].index < Len(deploy_statuses)
            /\ HasStatus(deploy_statuses[received[k].index + 1], "Failed")
    /\ deploy_progress.done =
          Cardinality({k \in 1..Len(deploy_statuses) : HasStatus(deploy_statuses[k], "Done")})
          + Len(SelectSeq(received, IsFailedStepMsg))

(***************************************************************************)
(* C10: in a deploy sequence that reaches the cluster the status table     *)
(* built at phase start has one entry per step the sequencer executes, and *)
(* the done-counter equals total exactly when every step has been executed *)
(* and its event handled by the control loop, for every manifest and       *)
(* either setting of skip-extensions.                                      *)
(***************************************************************************)
C10_DoneEqualsTotalWhenAllReported ==
    (deploy_statuses # <<>> /\ ReachedCluster) =>
        /\ Len(deploy_statuses) = Len(SequenceSteps(manifest.images, skip_extensions))
        /\ deploy_progress.total = Len(SequenceSteps(manifest.images, skip_extensions))
        /\ (deploy_progress.done = deploy_progress.total) <=>
              /\ executed = SequenceSteps(manifest.images, skip_extensions)
              /\ Len(SelectSeq(received, IsStepMsg)) = Len(executed)

(***************************************************************************)
(* C11: when the cluster client cannot be constructed the sequencer emits  *)
(* exactly one step event, a failure with index 0, immediately followed by *)
(* the sequence-complete signal; no step is executed or reported, every    *)
(* other status-table entry stays Pending and the done-counter ends at 1.  *)
(***************************************************************************)
C11_ConnectFailureReported ==
    /\ ConnectFailed => Len(Stream) >= 1 /\ Stream[1] = DeployStep(0, StepErr("no cluster"))
    /\ (Len(Stream) >= 1 /\ Stream[1] = DeployStep(0, StepErr("no cluster"))) =>
        /\ executed = <<>>
        /\ seq.pc \in {"complete", "finished"}
        /\ Len(SelectSeq(Stream, IsStepMsg)) = 1
        /\ Len(Stream) <= 2
        /\ seq.pc = "finished" => (Len(Stream) = 2 /\ Stream[2] = DeployDone)
        /\ \A k \in 2..Len(deploy_statuses) : HasStatus(deploy_statuses[k], "Pending")
        /\ dropped = <<>>
        /\ deploy_progress.done = (IF received = <<>> THEN 0 ELSE 1)
        /\ received # <<>> => deploy_statuses[1].status = Failed("no cluster")
        /\ doneMsgs = 1 => deploy_progress.done = 1

\* The connect failed, and the control loop has handled the failure of step 0 and
\* the completion signal: one entry Failed, the others Pending, done = 1
C11_Witness ==
    /\ ConnectFailed
    /\ seq.pc = "finished"
    /\ async_rx = <<>>
    /\ doneMsgs = 1
    /\ deploy_progress.done = 1
    /\ deploy_progress.total > 12
    /\ phase = "Health"

(***************************************************************************)
(* C19: no deploy failure is silently dropped: no step event carries an    *)
(* index outside the status table, the control loop discards no step       *)
(* event, and every failed step it has handled is a Failed entry of the    *)
(* status table.                                                           *)
(***************************************************************************)
C19_NoStepEventDiscarded ==
    /\ dropped = <<>>
    /\ \A k \in 1..Len(Stream) :
        IsStepMsg(Stream[k]) =>
            Stream[k].index < Len(TableSteps(manifest.images, skip_extensions))
    /\ \A k \in 1..Len(received) :
        IsFailedStepMsg(received[k]) =>
            \E j \in 1..Len(deploy_statuses) :
                /\ j = received[k].index + 1
                /\ deploy_statuses[j].status = Failed(received[k].result.err)

(***************************************************************************)
(* Health phase (health.rs: poll_health; main.rs: start_health_phase,      *)
(* handle_health_event and the control loop while the phase is Health)     *)
(***************************************************************************)
POLL_INTERVAL == 2
POD_TIMEOUT == 120
MAX_RECOVERY_ATTEMPTS == 3

MaxPods   == 2     \* SpecPoll: most pods one listing returns for a workload
MaxCycles == 3     \* SpecPoll, SpecHealth: most polling cycles of one run

\* The deploy_names start_health_phase builds (main.rs:992-1018)
RECURSIVE HealthExtensionNames(_)
HealthExtensionNames(imgs) ==
    IF imgs = <<>> THEN <<>>
    ELSE (IF ~Head(imgs).required
             /\ Head(imgs).component \in {"voice", "sysadmin", "ext-toolbox", "ext-browser"}
          THEN <<Head(imgs).component>> ELSE <<>>)
         \o HealthExtensionNames(Tail(imgs))

HealthDeployNames(m) ==
    <<"brain", "worker", "gateway", "ui", "nats", "qdrant">>
    \o (IF m.loaded THEN HealthExtensionNames(m.images) ELSE <<>>)

WorkloadNames ==
    {"brain", "worker", "gateway", "ui", "nats", "qdrant",
     "voice", "sysadmin", "ext-toolbox", "ext-browser"}

\* The seconds the cluster calls of one cycle can take
CycleDurations == {0, POD_TIMEOUT, POD_TIMEOUT + 1}

\* What poll_health reads from a listed pod: all containers ready, and a container
\* waiting with reason CrashLoopBackOff
PodKinds ==
    {[ready |-> TRUE, crash |-> FALSE], [ready |-> FALSE, crash |-> FALSE],
     [ready |-> FALSE, crash |-> TRUE]}

ListedPod(w, k, kind) ==
    [name |-> <<w, k>>, deployment |-> w, ready |-> kind.ready, crash |-> kind.crash]

\* The results pod_api.list can return for workload w: up to cluster_pods[w] pods
PodLists(w) ==
    UNION {{[k \in 1..n |-> ListedPod(w, k, kinds[k])] : kinds \in [1..n -> PodKinds]} :
           n \in 0..cluster_pods[w]}

NoLogs == [some |-> FALSE, text |-> ""]
SomeLogs(text) == [some |-> TRUE, text |-> text]

\* struct PodHealth
PodHealth(name, deployment, ready, error, logs_tail) ==
    [name |-> name, deployment |-> deployment, ready |-> ready, error |-> error,
     logs_tail |-> logs_tail]

\* The sentinel start_health_phase pushes
Initializing == PodHealth(<<"(initializing)", 0>>, "", FALSE, None, NoLogs)

\* enum HealthEvent
PodUpdate(pod) ==
    [type |-> "PodUpdate", pod |-> pod, deployment |-> "", attempt |-> 0,
     unhealthy |-> <<>>]
RecoveryAttempt(deployment, attempt) ==
    [type |-> "RecoveryAttempt", pod |-> Initializing, deployment |-> deployment,
     attempt |-> attempt, unhealthy |-> <<>>]
AllHealthy ==
    [type |-> "AllHealthy", pod |-> Initializing, deployment |-> "", attempt |-> 0,
     unhealthy |-> <<>>]
HealthFailed(unhealthy) ==
    [type |-> "Failed", pod |-> Initializing, deployment |-> "", attempt |-> 0,
     unhealthy |-> unhealthy]

\* The body of poll_health's loop over the pods of one listing, for one pod, with
\* the recovery budget taken to be per pod
ProcessPod_noBudget(pod, w, st) ==
    LET recover  == pod.crash
        attempts == IF recover THEN st.attempts + 1 ELSE st.attempts
        health   == PodHealth(pod.name, w, pod.ready,
                              IF pod.crash THEN "CrashLoopBackOff" ELSE None, NoLogs)
    IN [attempts    |-> attempts,
        events      |-> st.events
                        \o (IF recover THEN <<RecoveryAttempt(w, attempts)>> ELSE <<>>)
                        \o <<PodUpdate(health)>>,
        deleted     |-> st.deleted + (IF recover THEN 1 ELSE 0),
        all_healthy |-> st.all_healthy /\ pod.ready,
        unhealthy   |-> IF ~pod.ready THEN Append(st.unhealthy, health)
                        ELSE st.unhealthy]

\* The body of poll_health's loop for one pod, with the CrashLoopBackOff error set
\* only when a recovery is attempted
ProcessPod_errorOnlyOnRecovery(pod, w, st) ==
    LET recover  == pod.crash /\ st.attempts < MAX_RECOVERY_ATTEMPTS
        attempts == IF recover THEN st.attempts + 1 ELSE st.attempts
        health   == PodHealth(pod.name, w, pod.ready,
                              IF recover THEN "CrashLoopBackOff" ELSE None, NoLogs)
    IN [attempts    |-> attempts,
        events      |-> st.events
                        \o (IF recover THEN <<RecoveryAttempt(w, attempts)>> ELSE <<>>)
                        \o <<PodUpdate(health)>>,
        deleted     |-> st.deleted + (IF recover THEN 1 ELSE 0),
        all_healthy |-> st.all_healthy /\ pod.ready,
        unhealthy   |-> IF ~pod.ready THEN Append(st.unhealthy, health)
                        ELSE st.unhealthy]

\* The body of poll_health's loop over the pods of one listing, for one pod
\* (health.rs:86-151)
ProcessPod(pod, w, st) ==
    LET recover  == pod.crash /\ st.attempts < MAX_RECOVERY_ATTEMPTS
        attempts == IF recover THEN st.attempts + 1 ELSE st.attempts
        health   == PodHealth(pod.name, w, pod.ready,
                              IF pod.crash THEN "CrashLoopBackOff" ELSE None, NoLogs)
    IN [attempts    |-> attempts,
        events      |-> st.events
                        \o (IF recover THEN <<RecoveryAttempt(w, attempts)>> ELSE <<>>)
                        \o <<PodUpdate(health)>>,
        deleted     |-> st.deleted + (IF recover THEN 1 ELSE 0),
        all_healthy |-> st.all_healthy /\ pod.ready,
        unhealthy   |-> IF ~pod.ready THEN Append(st.unhealthy, health)
                        ELSE st.unhealthy]

\* for pod in &pods.items
RECURSIVE ProcessPods(_, _, _)
ProcessPods(pods, w, st) ==
    IF pods = <<>> THEN st
    ELSE ProcessPods(Tail(pods), w, ProcessPod(Head(pods), w, st))

\* pod_statuses after an update-or-insert of pod, by name (main.rs:526-530)
Upsert(statuses, pod) ==
    IF \E k \in 1..Len(statuses) : statuses[k].name = pod.name
    THEN LET first == CHOOSE k \in 1..Len(statuses) :
                        /\ statuses[k].name = pod.name
                        /\ \A j \in 1..(k - 1) : statuses[j].name # pod.name
         IN [statuses EXCEPT ![first] = pod]
    ELSE Append(statuses, pod)

RECURSIVE UpsertAll(_, _)
UpsertAll(statuses, pods) ==
    IF pods = <<>> THEN statuses
    ELSE UpsertAll(Upsert(statuses, Head(pods)), Tail(pods))

\* handle_health_event treating a Failed outcome as healthy
handle_health_event_failedIsHealthy(event) ==
    CASE event.type = "PodUpdate" ->
            /\ pod_statuses' = Upsert(pod_statuses, event.pod)
            /\ UNCHANGED <<health_done, health_failed>>
      [] event.type = "RecoveryAttempt" ->
            UNCHANGED <<pod_statuses, health_done, health_failed>>
      [] event.type = "AllHealthy" ->
            /\ health_done' = TRUE
            /\ health_failed' = FALSE
            /\ pod_statuses' = pod_statuses
      [] event.type = "Failed" ->
            /\ pod_statuses' = UpsertAll(pod_statuses, event.unhealthy)
            /\ health_done' = TRUE
            /\ health_failed' = FALSE

\* handle_health_event
handle_health_event(event) ==
    CASE event.type = "PodUpdate" ->
            /\ pod_statuses' = Upsert(pod_statuses, event.pod)
            /\ UNCHANGED <<health_done, health_failed>>
      [] event.type = "RecoveryAttempt" ->
            UNCHANGED <<pod_statuses, health_done, health_failed>>
      [] event.type = "AllHealthy" ->
            /\ health_done' = TRUE
            /\ health_failed' = FALSE
            /\ pod_statuses' = pod_statuses
      [] event.type = "Failed" ->
            /\ pod_statuses' = UpsertAll(pod_statuses, event.unhealthy)
            /\ health_done' = TRUE
            /\ health_failed' = TRUE

\* tx.send of health events, which the relay task forwards in order to the
\* control loop's channel (main.rs:1053-1059)
\* Without a receiver the send fails and .ok() discards the error
SendHealth(events) ==
    /\ async_rx' = IF loop = None THEN async_rx ELSE async_rx \o events
    /\ lateEvents' = lateEvents + (IF terminals # <<>> THEN Len(events) ELSE 0)

\* The names of the pods listed in this cycle that were not ready
NotReadyObserved == {observed[k].name : k \in {j \in 1..Len(observed) : ~observed[j].ready}}

Terminal(type, unhealthy, from) ==
    [type |-> type, unhealthy |-> unhealthy, elapsed |-> poller.elapsed,
     notReady |-> NotReadyObserved, from |-> from]

\* start_health_phase: the sentinel is pushed and the polling task is spawned
start_health_phase ==
    /\ pod_statuses' = Append(pod_statuses, Initializing)
    /\ poller' = [poller EXCEPT !.pc = "connect"]
    /\ deployment_names' = HealthDeployNames(manifest)
    /\ healthStarts' = healthStarts + 1

\* The control loop polls the keyboard (phase Health or Complete)
HealthLoopKey ==
    /\ loop = "poll"
    /\ phase \in {"Health", "Complete"}
    /\ \E key \in Keys : should_quit' = AfterKey(key)
    /\ loop' = "drain"
    /\ UNCHANGED <<phase, current_secret_index, secret_input, deploy_statuses,
                   deploy_progress, manifest, skip_extensions>>
    /\ UNCHANGED <<async_rx, seq, executed, failed, received, dropped, doneMsgs>>
    /\ UNCHANGED <<healthVars, healthHist>>
    /\ UNCHANGED <<phaseHist, pullVars, wizAll, deployStarts>>

\* The control loop dequeues one health message and applies it
HealthLoopRecv ==
    /\ loop = "drain"
    /\ phase \in {"Health", "Complete"}
    /\ async_rx # <<>>
    /\ handle_health_event(Head(async_rx))
    /\ async_rx' = Tail(async_rx)
    /\ handled' = handled + (IF Head(async_rx).type \in {"AllHealthy", "Failed"} THEN 1 ELSE 0)
    /\ UNCHANGED <<appVars, poller, recovery_attempts, deployment_names, cluster_pods>>
    /\ UNCHANGED <<seq, executed, failed, loop, received, dropped, doneMsgs>>
    /\ UNCHANGED <<recoveryEvents, deletions, crashSeen, observed, terminals, lateEvents, cycles,
                   healthStarts>>
    /\ UNCHANGED <<phaseHist, pullVars, wizAll, deployStarts>>

\* try_recv finds the channel empty; handle_auto_advance runs for Health (start the
\* polling if not started, advance when done and healthy); the loop ends if
\* should_quit is set
HealthLoopAutoAdvance ==
    /\ loop = "drain"
    /\ phase \in {"Health", "Complete"}
    /\ async_rx = <<>>
    /\ IF phase = "Health" /\ pod_statuses = <<>> /\ ~health_done
       THEN start_health_phase
       ELSE UNCHANGED <<pod_statuses, poller, deployment_names, healthStarts>>
    /\ phase' = IF phase = "Health" /\ health_done /\ ~health_failed
                THEN AdvancePhase(phase) ELSE phase
    /\ loop' = IF should_quit THEN "stopped" ELSE "poll"
    /\ UNCHANGED <<current_secret_index, secret_input, should_quit, deploy_statuses,
                   deploy_progress, manifest, skip_extensions>>
    /\ UNCHANGED <<async_rx, seq, executed, failed, received, dropped, doneMsgs>>
    /\ UNCHANGED <<health_done, health_failed, recovery_attempts, cluster_pods>>
    /\ UNCHANGED <<recoveryEvents, deletions, crashSeen, observed, terminals, lateEvents, cycles,
                   handled>>
    /\ UNCHANGED <<phaseHist, pullVars, wizAll, deployStarts>>

\* The spawned task: kube::Client::try_default succeeds and poll_health begins its
\* first cycle, or fails and Failed with no pods is sent (main.rs:1036-1049)
PollerConnect ==
    /\ loop # "stopped"
    /\ poller.pc = "connect"
    /\ \/ /\ poller' = [pc |-> "list", next |-> 1, all_healthy |-> TRUE,
                        unhealthy |-> <<>>, elapsed |-> 0]
          /\ cycles' = 1
          /\ UNCHANGED <<async_rx, lateEvents, terminals>>
       \/ /\ SendHealth(<<HealthFailed(<<>>)>>)
          /\ terminals' = Append(terminals, Terminal("Failed", <<>>, "start_health_phase"))
          /\ poller' = [poller EXCEPT !.pc = "no_client"]
          /\ cycles' = cycles
    /\ UNCHANGED <<appVars, pod_statuses, health_done, health_failed, recovery_attempts,
                   deployment_names, cluster_pods>>
    /\ UNCHANGED <<seq, executed, failed, loop, received, dropped, doneMsgs>>
    /\ UNCHANGED <<recoveryEvents, deletions, crashSeen, observed, healthStarts, handled>>
    /\ UNCHANGED <<phaseHist, pullVars, wizAll, deployStarts>>

\* poll_health lists the pods of the next workload of the cycle and handles each
\* pod; a failed listing ends poll_health with Err (health.rs:81-152)
PollerList ==
    /\ loop # "stopped"
    /\ poller.pc = "list"
    /\ poller.next <= Len(deployment_names)
    /\ LET w == deployment_names[poller.next] IN
       \/ /\ poller' = [poller EXCEPT !.pc = "returned_err"]
          /\ UNCHANGED <<async_rx, lateEvents, recovery_attempts, recoveryEvents,
                         deletions, crashSeen, observed>>
       \/ \E listed \in PodLists(w) :
            LET st == ProcessPods(listed, w,
                        [attempts |-> recovery_attempts[w], events |-> <<>>,
                         deleted |-> 0, all_healthy |-> poller.all_healthy,
                         unhealthy |-> poller.unhealthy])
            IN /\ recovery_attempts' = [recovery_attempts EXCEPT ![w] = st.attempts]
               /\ recoveryEvents' =
                    [recoveryEvents EXCEPT ![w] =
                        @ + Cardinality({k \in 1..Len(st.events) :
                                            st.events[k].type = "RecoveryAttempt"})]
               /\ deletions' = [deletions EXCEPT ![w] = @ + st.deleted]
               /\ crashSeen' = [crashSeen EXCEPT ![w] =
                                    @ + Cardinality({k \in 1..Len(listed) : listed[k].crash})]
               /\ observed' = observed \o listed
               /\ SendHealth(st.events)
               /\ poller' = [poller EXCEPT !.next = @ + 1,
                                            !.all_healthy = st.all_healthy,
                                            !.unhealthy = st.unhealthy]
    /\ UNCHANGED <<appVars, pod_statuses, health_done, health_failed, deployment_names,
                   cluster_pods>>
    /\ UNCHANGED <<seq, executed, failed, loop, received, dropped, doneMsgs>>
    /\ UNCHANGED <<terminals, cycles, healthStarts, handled>>
    /\ UNCHANGED <<phaseHist, pullVars, wizAll, deployStarts>>

\* The unhealthy pods with the log tails fetched for Failed: Some(text), where the
\* text is empty for the pods whose fetch failed (health.rs:162-168)
WithLogs(unhealthy, failing) ==
    [k \in 1..Len(unhealthy) |->
        [unhealthy[k] EXCEPT !.logs_tail = SomeLogs(IF k \in failing THEN "" ELSE "tail")]]

\* The decision at the end of a cycle with the ceiling tested before all_healthy
CycleOutcome_ceilingFirst(all_healthy, names, elapsed) ==
    IF elapsed > POD_TIMEOUT THEN "Failed"
    ELSE IF all_healthy /\ names # <<>> THEN "AllHealthy"
    ELSE "Sleep"

\* The decision at the end of a cycle without the test of the ceiling
CycleOutcome_noCeiling(all_healthy, names, elapsed) ==
    IF all_healthy /\ names # <<>> THEN "AllHealthy"
    ELSE "Failed"

\* The decision at the end of a cycle (health.rs:155-173)
CycleOutcome(all_healthy, names, elapsed) ==
    IF all_healthy /\ names # <<>> THEN "AllHealthy"
    ELSE IF elapsed > POD_TIMEOUT THEN "Failed"
    ELSE "Sleep"

\* The end of a cycle, `d` seconds after it began: AllHealthy and return, or the log
\* tails and Failed and return, or sleep (health.rs:155-173)
PollerCycleEnd ==
    /\ loop # "stopped"
    /\ poller.pc = "list"
    /\ poller.next > Len(deployment_names)
    /\ \E d \in CycleDurations :
        LET elapsed == poller.elapsed + d
            outcome == CycleOutcome(poller.all_healthy, deployment_names, elapsed)
        IN
        CASE outcome = "AllHealthy" ->
             /\ SendHealth(<<AllHealthy>>)
             /\ terminals' = Append(terminals,
                                    [Terminal("AllHealthy", <<>>, "poll_health")
                                        EXCEPT !.elapsed = elapsed])
             /\ poller' = [poller EXCEPT !.pc = "returned_ok", !.elapsed = elapsed]
          [] outcome = "Failed" ->
             \E failing \in SUBSET (1..Len(poller.unhealthy)) :
             /\ SendHealth(<<HealthFailed(WithLogs(poller.unhealthy, failing))>>)
             /\ terminals' = Append(terminals,
                                    [Terminal("Failed",
                                              WithLogs(poller.unhealthy, failing),
                                              "poll_health")
                                        EXCEPT !.elapsed = elapsed])
             /\ poller' = [poller EXCEPT !.pc = "returned_ok", !.elapsed = elapsed]
          [] outcome = "Sleep" ->
             /\ poller' = [poller EXCEPT !.pc = "sleep", !.elapsed = elapsed]
             /\ UNCHANGED <<async_rx, lateEvents, terminals>>
    /\ UNCHANGED <<appVars, pod_statuses, health_done, health_failed, recovery_attempts,
                   deployment_names, cluster_pods>>
    /\ UNCHANGED <<seq, executed, failed, loop, received, dropped, doneMsgs>>
    /\ UNCHANGED <<recoveryEvents, deletions, crashSeen, observed, cycles, healthStarts,
                   handled>>
    /\ UNCHANGED <<phaseHist, pullVars, wizAll, deployStarts>>

\* tokio::time::sleep(POLL_INTERVAL) ends and the next cycle begins
PollerWake ==
    /\ loop # "stopped"
    /\ poller.pc = "sleep"
    /\ cycles < MaxCycles
    /\ poller' = [pc |-> "list", next |-> 1, all_healthy |-> TRUE, unhealthy |-> <<>>,
                  elapsed |-> poller.elapsed + POLL_INTERVAL]
    /\ observed' = <<>>
    /\ cycles' = cycles + 1
    /\ UNCHANGED <<appVars, pod_statuses, health_done, health_failed, recovery_attempts,
                   deployment_names, cluster_pods>>
    /\ UNCHANGED deployVars
    /\ UNCHANGED <<recoveryEvents, deletions, crashSeen, terminals, lateEvents, healthStarts, handled>>
    /\ UNCHANGED <<phaseHist, pullVars, wizAll, deployStarts>>

\* poll_health called on its own with any list of workloads, nobody receiving
InitPoll ==
    /\ IdleApp
    /\ async_rx = <<>> /\ seq = [pc |-> "unspawned", step_index |-> 0]
    /\ executed = <<>> /\ failed = {} /\ loop = None
    /\ received = <<>> /\ dropped = <<>> /\ doneMsgs = 0
    /\ pod_statuses = <<>> /\ health_done = FALSE /\ health_failed = FALSE
    /\ poller = [pc |-> "list", next |-> 1, all_healthy |-> TRUE,
                 unhealthy |-> <<>>, elapsed |-> 0]
    /\ deployment_names \in {<<>>, <<"brain">>, <<"brain", "worker">>}
    /\ cluster_pods = [w \in WorkloadNames |-> MaxPods]
    /\ recovery_attempts = [w \in WorkloadNames |-> 0]
    /\ recoveryEvents = [w \in WorkloadNames |-> 0]
    /\ deletions = [w \in WorkloadNames |-> 0]
    /\ crashSeen = [w \in WorkloadNames |-> 0]
    /\ observed = <<>> /\ terminals = <<>> /\ lateEvents = 0 /\ cycles = 1
    /\ healthStarts = 0 /\ handled = 0
    /\ IdleWiz /\ IdleNi /\ IdleSolo /\ deployStarts = 0
    /\ IdlePhaseHist
    /\ IdlePull

NextPoll ==
    \/ PollerList
    \/ PollerCycleEnd
    \/ PollerWake

SpecPoll == InitPoll /\ [][NextPoll]_vars

\* The control loop enters Health with empty pod statuses; the cluster has at most
\* one pod, of the brain workload
InitHealth ==
    /\ phase = "Health"
    /\ current_secret_index = 0
    /\ secret_input = <<>>
    /\ should_quit = FALSE
    /\ deploy_statuses = <<>>
    /\ deploy_progress = [done |-> 0, total |-> 0]
    /\ manifest = SomeManifest(<<Image("brain", TRUE), Image("voice", FALSE)>>)
    /\ skip_extensions = FALSE
    /\ async_rx = <<>> /\ seq = [pc |-> "finished", step_index |-> 0]
    /\ executed = <<>> /\ failed = {} /\ loop = "poll"
    /\ received = <<>> /\ dropped = <<>> /\ doneMsgs = 0
    /\ pod_statuses = <<>> /\ health_done = FALSE /\ health_failed = FALSE
    /\ poller = [pc |-> "unspawned", next |-> 1, all_healthy |-> TRUE,
                 unhealthy |-> <<>>, elapsed |-> 0]
    /\ deployment_names = <<>>
    /\ cluster_pods = [w \in WorkloadNames |-> IF w = "brain" THEN 1 ELSE 0]
    /\ recovery_attempts = [w \in WorkloadNames |-> 0]
    /\ recoveryEvents = [w \in WorkloadNames |-> 0]
    /\ deletions = [w \in WorkloadNames |-> 0]
    /\ crashSeen = [w \in WorkloadNames |-> 0]
    /\ observed = <<>> /\ terminals = <<>> /\ lateEvents = 0 /\ cycles = 0
    /\ healthStarts = 0 /\ handled = 0
    /\ IdleWiz /\ IdleNi /\ IdleSolo /\ deployStarts = 0
    /\ IdlePhaseHist
    /\ IdlePull

NextHealth ==
    \/ HealthLoopKey
    \/ HealthLoopRecv
    \/ HealthLoopAutoAdvance
    \/ PollerConnect
    \/ PollerList
    \/ PollerCycleEnd
    \/ PollerWake

SpecHealth == InitHealth /\ [][NextHealth]_vars

(***************************************************************************)
(* Properties of the health monitor                                        *)
(***************************************************************************)
PollerReturned == poller.pc \in {"returned_ok", "returned_err", "no_client"}

\* The cycle's listings are complete
CycleListed == poller.pc \in {"sleep", "returned_ok"} /\ poller.next > Len(deployment_names)

AllObservedReady == \A k \in 1..Len(observed) : observed[k].ready

TerminalsOfType(type) == SelectSeq(terminals, LAMBDA t : t.type = type)

(***************************************************************************)
(* C12: the recovery-attempt counter of every workload never exceeds 3,    *)
(* and at most 3 RecoveryAttempt events and 3 pod deletions happen per     *)
(* workload name, however many crash-looping pods are seen, in one cycle   *)
(* or over several.                                                        *)
(***************************************************************************)
C12_RecoveryBudgetPerWorkload ==
    \A w \in WorkloadNames :
        /\ recovery_attempts[w] <= 3
        /\ recoveryEvents[w] <= 3
        /\ deletions[w] <= 3
        /\ recoveryEvents[w] = recovery_attempts[w]
        /\ deletions[w] = recovery_attempts[w]
        /\ recovery_attempts[w] <= crashSeen[w]

\* A workload was seen crash-looping five times or more, twice in the cycle under
\* way, and its budget of three is used up while another workload has used one
C12_Witness ==
    /\ crashSeen["brain"] >= 5
    /\ recovery_attempts["brain"] = 3
    /\ deletions["brain"] = 3
    /\ Cardinality({k \in 1..Len(observed) :
                        observed[k].deployment = "brain" /\ observed[k].crash}) = 2
    /\ recovery_attempts["worker"] = 1

(***************************************************************************)
(* C13: once a cycle finds every pod of every monitored workload ready     *)
(* (at least one workload being monitored), poll_health emits exactly one  *)
(* AllHealthy and returns; AllHealthy is emitted only for such a cycle, no *)
(* event follows it, and AllHealthy and Failed are never both emitted.     *)
(***************************************************************************)
C13_AllHealthyOnceThenStop ==
    /\ Len(terminals) <= 1
    /\ lateEvents = 0
    /\ (CycleListed /\ AllObservedReady /\ deployment_names # <<>>) =>
            /\ poller.pc = "returned_ok"
            /\ Len(TerminalsOfType("AllHealthy")) = 1
    /\ \A k \in 1..Len(terminals) :
        terminals[k].type = "AllHealthy" =>
            /\ terminals[k].notReady = {}
            /\ poller.pc = "returned_ok"
            /\ AllObservedReady

\* AllHealthy was emitted in a later cycle, after a recovery, with pods of two
\* workloads observed ready
C13_Witness ==
    /\ Len(TerminalsOfType("AllHealthy")) = 1
    /\ cycles >= 2
    /\ recoveryEvents["brain"] >= 1
    /\ \E i, j \in 1..Len(observed) : observed[i].deployment # observed[j].deployment
    /\ poller.pc = "returned_ok"

(***************************************************************************)
(* C14: when the 120-second ceiling has elapsed at the end of a cycle that *)
(* is not all-healthy, poll_health emits exactly one Failed whose          *)
(* unhealthy set is exactly the pods found not ready in that cycle, each   *)
(* with a log tail present (also when the fetch failed), and returns;      *)
(* Failed is never emitted before the ceiling has elapsed.                 *)
(***************************************************************************)
C14_FailedAfterCeiling ==
    /\ (CycleListed /\ ~AllObservedReady /\ poller.elapsed > 120) =>
            /\ poller.pc = "returned_ok"
            /\ Len(TerminalsOfType("Failed")) = 1
    /\ poller.pc = "sleep" => poller.elapsed <= 120
    /\ \A k \in 1..Len(terminals) :
        (terminals[k].type = "Failed" /\ terminals[k].from = "poll_health") =>
            LET t == terminals[k] IN
            /\ t.elapsed > 120
            /\ Len(terminals) = 1
            /\ poller.pc = "returned_ok"
            /\ {t.unhealthy[j].name : j \in 1..Len(t.unhealthy)} = t.notReady
            /\ Len(t.unhealthy) = Cardinality(t.notReady)
            /\ \A j \in 1..Len(t.unhealthy) :
                /\ ~t.unhealthy[j].ready
                /\ t.unhealthy[j].logs_tail.some

\* Failed was emitted in the second cycle with pods of two workloads not ready, the
\* log fetch having failed for one of them and succeeded for another
C14_Witness ==
    /\ cycles = 2
    /\ Len(terminals) = 1
    /\ terminals[1].type = "Failed"
    /\ \E i, j \in 1..Len(terminals[1].unhealthy) :
        /\ terminals[1].unhealthy[i].deployment # terminals[1].unhealthy[j].deployment
        /\ terminals[1].unhealthy[i].logs_tail = SomeLogs("")
        /\ terminals[1].unhealthy[j].logs_tail = SomeLogs("tail")
    /\ \E k \in 1..Len(observed) : observed[k].ready

(***************************************************************************)
(* C15: every run of the health monitor that ends has delivered exactly    *)
(* one terminal event, AllHealthy or Failed; it never stops without one,   *)
(* also when listing the pods of a workload fails.                         *)
(***************************************************************************)
C15_AlwaysOneTerminalEvent ==
    /\ Len(terminals) <= 1
    /\ PollerReturned => Len(terminals) = 1
    /\ (PollerReturned /\ async_rx = <<>> /\ loop = "poll") => handled = 1

(***************************************************************************)
(* The wizard: Secrets, Features and Confirm, up to the start of Pull      *)
(* (main.rs:200-447, 563-667).                                             *)
(***************************************************************************)
MaxCancels == 1    \* SpecWizard: times Cancel is chosen in Confirm in one run
MaxText    == 2    \* SpecWizard: characters held in the input buffer and the prompts

\* manifest.rs:29-36 ManifestSecret (key, required) and 38-46 ManifestFeature
\* (id, default_enabled, secrets)
ManifestSecret(key, required) == [key |-> key, required |-> required]
ManifestFeature(id, default_enabled, secrets) ==
    [id |-> id, default_enabled |-> default_enabled, secrets |-> secrets]

WizardManifest(imgs, secrets, feats) ==
    [loaded |-> TRUE, images |-> imgs, required_secrets |-> secrets, optional_features |-> feats]

\* The first two required_secrets of default_manifest (manifest.rs:150-161)
SecretLists ==
    { <<>>,
      <<ManifestSecret("ANTHROPIC_OAUTH_TOKEN", TRUE)>>,
      <<ManifestSecret("ANTHROPIC_OAUTH_TOKEN", TRUE), ManifestSecret("ANTHROPIC_API_KEY", FALSE)>> }

\* Feature lists: none; telegram as in default_manifest (manifest.rs:163-168); a
\* feature with two keys beside browser, which has none (manifest.rs:178-180)
FeatureLists ==
    { <<>>,
      <<ManifestFeature("telegram", FALSE, <<"TELEGRAM_BOT_TOKEN">>)>>,
      <<ManifestFeature("github", TRUE, <<"GITHUB_TOKEN", "GITHUB_ORG">>),
        ManifestFeature("browser", FALSE, <<>>)>> }

ImageLists ==
    { <<>>,
      <<Image("brain", TRUE), Image("worker", TRUE)>>,
      <<Image("brain", TRUE), Image("voice", FALSE)>> }

\* Every list of secrets with every list of features, every list of images with
\* some of them, and a manifest whose only secret is optional
WizardManifests ==
    {WizardManifest(<<Image("brain", TRUE), Image("worker", TRUE)>>, s, f) :
        s \in SecretLists, f \in FeatureLists}
    \cup {WizardManifest(i, <<ManifestSecret("ANTHROPIC_OAUTH_TOKEN", TRUE)>>, <<>>) :
        i \in ImageLists}
    \cup {WizardManifest(<<Image("brain", TRUE), Image("worker", TRUE)>>,
                          <<ManifestSecret("ANTHROPIC_API_KEY", FALSE)>>, <<>>)}

SecretPrompt(key, required, is_feature) ==
    [key |-> key, required |-> required, is_feature |-> is_feature, value |-> NoneStr]

\* build_secret_prompts (main.rs:200-215)
build_secret_prompts(m) ==
    [k \in 1..Len(m.required_secrets) |->
        SecretPrompt(m.required_secrets[k].key, m.required_secrets[k].required, FALSE)]

\* build_feature_selections (main.rs:217-232)
build_feature_selections(m) ==
    [k \in 1..Len(m.optional_features) |->
        [id |-> m.optional_features[k].id,
         enabled |-> m.optional_features[k].default_enabled,
         secrets |-> [j \in 1..Len(m.optional_features[k].secrets) |->
                        [key |-> m.optional_features[k].secrets[j], value |-> NoneStr]]]]

\* The index of the first feature that has a secret with this key, 0 if none
FirstFeatureWith(key) ==
    LET has == {k \in 1..Len(features) :
                   \E j \in 1..Len(features[k].secrets) : features[k].secrets[j].key = key}
    IN IF has = {} THEN 0 ELSE CHOOSE k \in has : \A o \in has : k <= o

\* The first secret of a feature with this key
FirstSecretWith(f, key) ==
    CHOOSE j \in 1..Len(f.secrets) :
        /\ f.secrets[j].key = key
        /\ \A o \in 1..Len(f.secrets) : f.secrets[o].key = key => j <= o

\* submit_current_secret moving the cursor two prompts on
submit_current_secret_skipsNext ==
    LET idx == current_secret_index
        input == secret_input
    IN
    IF idx >= Len(secret_prompts)
    THEN UNCHANGED <<secret_prompts, config, features, current_secret_index, secret_input>>
    ELSE IF secret_prompts[idx + 1].required /\ input = <<>>
    THEN UNCHANGED <<secret_prompts, config, features, current_secret_index, secret_input>>
    ELSE
        LET value == IF input = <<>> THEN NoneStr ELSE SomeStr(input)
            key == secret_prompts[idx + 1].key
            f == FirstFeatureWith(key)
        IN
        /\ secret_prompts' = [secret_prompts EXCEPT ![idx + 1].value = value]
        /\ CASE key = "ANTHROPIC_OAUTH_TOKEN" ->
                    config' = [config EXCEPT !.oauth_token = value] /\ features' = features
             [] key = "ANTHROPIC_API_KEY" ->
                    config' = [config EXCEPT !.api_key = value] /\ features' = features
             [] key = "VOYAGE_API_KEY" ->
                    config' = [config EXCEPT !.voyage_api_key = value] /\ features' = features
             [] key = "AGENT_NAME" ->
                    /\ config' = IF value.some /\ value.text # <<>>
                                 THEN [config EXCEPT !.agent_name = value.text] ELSE config
                    /\ features' = features
             [] OTHER ->
                    /\ config' = config
                    /\ features' = IF f = 0 THEN features
                                   ELSE [features EXCEPT
                                            ![f].secrets[FirstSecretWith(features[f], key)].value = value]
        /\ current_secret_index' = idx + 2
        /\ secret_input' = <<>>

\* submit_current_secret (main.rs:319-362)
submit_current_secret ==
    LET idx == current_secret_index
        input == secret_input
    IN
    IF idx >= Len(secret_prompts)
    THEN UNCHANGED <<secret_prompts, config, features, current_secret_index, secret_input>>
    ELSE IF secret_prompts[idx + 1].required /\ input = <<>>
    THEN UNCHANGED <<secret_prompts, config, features, current_secret_index, secret_input>>
    ELSE
        LET value == IF input = <<>> THEN NoneStr ELSE SomeStr(input)
            key == secret_prompts[idx + 1].key
            f == FirstFeatureWith(key)
        IN
        /\ secret_prompts' = [secret_prompts EXCEPT ![idx + 1].value = value]
        /\ CASE key = "ANTHROPIC_OAUTH_TOKEN" ->
                    config' = [config EXCEPT !.oauth_token = value] /\ features' = features
             [] key = "ANTHROPIC_API_KEY" ->
                    config' = [config EXCEPT !.api_key = value] /\ features' = features
             [] key = "VOYAGE_API_KEY" ->
                    config' = [config EXCEPT !.voyage_api_key = value] /\ features' = features
             [] key = "AGENT_NAME" ->
                    /\ config' = IF value.some /\ value.text # <<>>
                                 THEN [config EXCEPT !.agent_name = value.text] ELSE config
                    /\ features' = features
             [] OTHER ->
                    /\ config' = config
                    /\ features' = IF f = 0 THEN features
                                   ELSE [features EXCEPT
                                            ![f].secrets[FirstSecretWith(features[f], key)].value = value]
        /\ current_secret_index' = idx + 1
        /\ secret_input' = <<>>

\* KeyCode::Char(c) for the characters of the model
CharKeys == {"q", " "}

\* The characters in the input buffer and in the values of the prompts
RECURSIVE TextInPrompts(_)
TextInPrompts(n) ==
    IF n = 0 THEN 0 ELSE Len(secret_prompts[n].value.text) + TextInPrompts(n - 1)

TextHeld == Len(secret_input) + TextInPrompts(Len(secret_prompts))

WizardKeys == CharKeys \cup {"none", "ctrl_c", "Backspace", "Enter", "Esc", "Up", "Down",
                             "Left", "Right"}

\* String::pop
Pop(s) == IF s = <<>> THEN s ELSE SubSeq(s, 1, Len(s) - 1)

\* handle_secrets_key with Esc skipping a required prompt as well
handle_secrets_key_escSkipsRequired(key) ==
    /\ IF current_secret_index >= Len(secret_prompts)
       THEN UNCHANGED <<secret_prompts, config, features, current_secret_index, secret_input>>
       ELSE CASE key \in CharKeys ->
                    /\ secret_input' = Append(secret_input, key)
                    /\ UNCHANGED <<secret_prompts, config, features, current_secret_index>>
              [] key = "Backspace" ->
                    /\ secret_input' = Pop(secret_input)
                    /\ UNCHANGED <<secret_prompts, config, features, current_secret_index>>
              [] key = "Enter" -> submit_current_secret
              [] key = "Esc" ->
                    /\ secret_prompts' =
                           [secret_prompts EXCEPT ![current_secret_index + 1].value = NoneStr]
                    /\ current_secret_index' = current_secret_index + 1
                    /\ secret_input' = <<>>
                    /\ UNCHANGED <<config, features>>
              [] OTHER ->
                    UNCHANGED <<secret_prompts, config, features, current_secret_index,
                                secret_input>>
    /\ UNCHANGED <<phase, should_quit, feature_cursor, collecting_feature_secrets,
                   confirm_selected, tokens, cancels>>

\* handle_secrets_key (main.rs:291-317)
handle_secrets_key(key) ==
    /\ IF current_secret_index >= Len(secret_prompts)
       THEN UNCHANGED <<secret_prompts, config, features, current_secret_index, secret_input>>
       ELSE CASE key \in CharKeys ->
                    /\ secret_input' = Append(secret_input, key)
                    /\ UNCHANGED <<secret_prompts, config, features, current_secret_index>>
              [] key = "Backspace" ->
                    /\ secret_input' = Pop(secret_input)
                    /\ UNCHANGED <<secret_prompts, config, features, current_secret_index>>
              [] key = "Enter" -> submit_current_secret
              [] key = "Esc" ->
                    IF ~secret_prompts[current_secret_index + 1].required
                    THEN /\ secret_prompts' =
                                [secret_prompts EXCEPT ![current_secret_index + 1].value = NoneStr]
                         /\ current_secret_index' = current_secret_index + 1
                         /\ secret_input' = <<>>
                         /\ UNCHANGED <<config, features>>
                    ELSE UNCHANGED <<secret_prompts, config, features, current_secret_index,
                                     secret_input>>
              [] OTHER ->
                    UNCHANGED <<secret_prompts, config, features, current_secret_index,
                                secret_input>>
    /\ UNCHANGED <<phase, should_quit, feature_cursor, collecting_feature_secrets,
                   confirm_selected, tokens, cancels>>

\* The base prompts: secret_prompts.retain(|p| !p.is_feature) (main.rs:388)
BasePrompts(prompts) == SelectSeq(prompts, LAMBDA p : ~p.is_feature)

\* The prompts of the enabled features among the first n, in order (main.rs:392-406)
RECURSIVE FeaturePrompts(_, _)
FeaturePrompts(fs, n) ==
    IF n = 0 THEN <<>>
    ELSE FeaturePrompts(fs, n - 1) \o
         (IF fs[n].enabled
          THEN [j \in 1..Len(fs[n].secrets) |-> SecretPrompt(fs[n].secrets[j].key, FALSE, TRUE)]
          ELSE <<>>)

\* Enter in Features without the removal of the feature prompts of an earlier pass
FeaturesEnter_appendOnly ==
    LET base_count == Len(secret_prompts)
        feature_prompts == FeaturePrompts(features, Len(features))
    IN
    /\ tokens' = tokens + 1
    /\ config' = [config EXCEPT !.auth_token = tokens + 1]
    /\ IF feature_prompts = <<>>
       THEN /\ secret_prompts' = secret_prompts
            /\ phase' = AdvancePhase(phase)
            /\ UNCHANGED <<current_secret_index, collecting_feature_secrets>>
       ELSE /\ secret_prompts' = secret_prompts \o feature_prompts
            /\ current_secret_index' = base_count
            /\ collecting_feature_secrets' = TRUE
            /\ phase' = "Secrets"

\* Enter in Features generating the auth token only while it is empty
FeaturesEnter_tokenKept ==
    LET base == BasePrompts(secret_prompts)
        base_count == Len(base)
        feature_prompts == FeaturePrompts(features, Len(features))
    IN
    /\ tokens' = tokens + 1
    /\ config' = IF config.auth_token = 0 THEN [config EXCEPT !.auth_token = tokens + 1]
                  ELSE config
    /\ IF feature_prompts = <<>>
       THEN /\ secret_prompts' = base
            /\ phase' = AdvancePhase(phase)
            /\ UNCHANGED <<current_secret_index, collecting_feature_secrets>>
       ELSE /\ secret_prompts' = base \o feature_prompts
            /\ current_secret_index' = base_count
            /\ collecting_feature_secrets' = TRUE
            /\ phase' = "Secrets"

\* Enter in Features (main.rs:383-417)
FeaturesEnter ==
    LET base == BasePrompts(secret_prompts)
        base_count == Len(base)
        feature_prompts == FeaturePrompts(features, Len(features))
    IN
    /\ tokens' = tokens + 1
    /\ config' = [config EXCEPT !.auth_token = tokens + 1]
    /\ IF feature_prompts = <<>>
       THEN /\ secret_prompts' = base
            /\ phase' = AdvancePhase(phase)
            /\ UNCHANGED <<current_secret_index, collecting_feature_secrets>>
       ELSE /\ secret_prompts' = base \o feature_prompts
            /\ current_secret_index' = base_count
            /\ collecting_feature_secrets' = TRUE
            /\ phase' = "Secrets"

\* handle_features_key (main.rs:364-423)
handle_features_key(key) ==
    CASE key = "Up" ->
            /\ feature_cursor' = IF feature_cursor > 0 THEN feature_cursor - 1 ELSE feature_cursor
            /\ UNCHANGED <<phase, should_quit, secret_prompts, config, features,
                           current_secret_index, secret_input, collecting_feature_secrets,
                           confirm_selected, tokens, cancels>>
      [] key = "Down" ->
            /\ feature_cursor' = IF features # <<>> /\ feature_cursor < Len(features) - 1
                                 THEN feature_cursor + 1 ELSE feature_cursor
            /\ UNCHANGED <<phase, should_quit, secret_prompts, config, features,
                           current_secret_index, secret_input, collecting_feature_secrets,
                           confirm_selected, tokens, cancels>>
      [] key = " " ->
            /\ features' = IF feature_cursor < Len(features)
                           THEN [features EXCEPT ![feature_cursor + 1].enabled = ~@]
                           ELSE features
            /\ UNCHANGED <<phase, should_quit, secret_prompts, config, feature_cursor,
                           current_secret_index, secret_input, collecting_feature_secrets,
                           confirm_selected, tokens, cancels>>
      [] key = "Enter" ->
            /\ FeaturesEnter
            /\ UNCHANGED <<should_quit, features, feature_cursor, secret_input,
                           confirm_selected, cancels>>
      [] key = "q" ->
            /\ should_quit' = TRUE
            /\ UNCHANGED <<phase, secret_prompts, config, features, feature_cursor,
                           current_secret_index, secret_input, collecting_feature_secrets,
                           confirm_selected, tokens, cancels>>
      [] OTHER ->
            UNCHANGED <<phase, should_quit, secret_prompts, config, features, feature_cursor,
                        current_secret_index, secret_input, collecting_feature_secrets,
                        confirm_selected, tokens, cancels>>

\* handle_confirm_key (main.rs:425-447), with App::advance and App::back_to_secrets
\* (app.rs:189-206)
handle_confirm_key(key) ==
    CASE key = "Left" ->
            /\ confirm_selected' = 0
            /\ UNCHANGED <<phase, should_quit, current_secret_index, secret_input, cancels>>
      [] key = "Right" ->
            /\ confirm_selected' = 1
            /\ UNCHANGED <<phase, should_quit, current_secret_index, secret_input, cancels>>
      [] key = "Enter" ->
            IF confirm_selected = 0
            THEN /\ phase' = AdvancePhase(phase)
                 /\ UNCHANGED <<should_quit, current_secret_index, secret_input,
                                confirm_selected, cancels>>
            ELSE /\ phase' = "Secrets"
                 /\ current_secret_index' = 0
                 /\ secret_input' = <<>>
                 /\ cancels' = cancels + 1
                 /\ UNCHANGED <<should_quit, confirm_selected>>
      [] key = "q" ->
            /\ should_quit' = TRUE
            /\ UNCHANGED <<phase, current_secret_index, secret_input, confirm_selected, cancels>>
      [] OTHER ->
            UNCHANGED <<phase, should_quit, current_secret_index, secret_input,
                        confirm_selected, cancels>>

\* handle_key (main.rs:238-289) after main's Ctrl+C test (main.rs:66-73)
handle_key(key) ==
    IF key = "none"
    THEN UNCHANGED <<phase, should_quit, secret_prompts, config, features, feature_cursor,
                     current_secret_index, secret_input, collecting_feature_secrets,
                     confirm_selected, tokens, cancels>>
    ELSE IF key = "ctrl_c"
    THEN /\ should_quit' = TRUE
         /\ UNCHANGED <<phase, secret_prompts, config, features, feature_cursor,
                        current_secret_index, secret_input, collecting_feature_secrets,
                        confirm_selected, tokens, cancels>>
    ELSE CASE phase = "Secrets" -> handle_secrets_key(key)
           [] phase = "Features" -> handle_features_key(key)
           [] phase = "Confirm" ->
                /\ handle_confirm_key(key)
                /\ UNCHANGED <<secret_prompts, config, features, feature_cursor,
                               collecting_feature_secrets, tokens>>
           [] OTHER ->
                /\ should_quit' = AfterKey(key)
                /\ UNCHANGED <<phase, secret_prompts, config, features, feature_cursor,
                               current_secret_index, secret_input, collecting_feature_secrets,
                               confirm_selected, tokens, cancels>>

\* ItemStatus of a pull entry; the error of Failed is a sequence of characters
PullPending == [kind |-> "Pending", msg |-> <<>>]
PullInProgress == [kind |-> "InProgress", msg |-> <<>>]
PullDone == [kind |-> "Done", msg |-> <<>>]
PullFailed(e) == [kind |-> "Failed", msg |-> e]

\* The image list with the optional images kept whatever the flag says
PullList_all(m, skip) == m.images

\* The image list start_pull_phase builds (main.rs:629-636)
PullList(m, skip) == SelectSeq(m.images, LAMBDA img : ~(~img.required /\ skip))

\* start_pull_phase (main.rs:619-667): the status list, the progress pair, and the
\* spawned pull_all with its relay task
start_pull_phase ==
    LET list == PullList(manifest, skip_extensions) IN
    IF ~manifest.loaded
    THEN UNCHANGED <<pull_statuses, pull_progress, pullVars, relayed, pullStarts>>
    ELSE
    /\ pull_statuses' = [k \in 1..Len(list) |-> [image |-> list[k].component, status |-> PullPending]]
    /\ pull_progress' = [done |-> 0, total |-> Len(list)]
    /\ IF list = <<>>
       THEN UNCHANGED <<pullVars, relayed, pullStarts>>
       ELSE /\ images' = Len(list)
            /\ permits' = MAX_CONCURRENT /\ spawned' = 0 /\ joined' = 0 /\ results' = <<>>
            /\ task' = [i \in 1..Len(list) |->
                           [pc |-> "unspawned", attempt |-> 0, result |-> NoResult]]
            /\ sent' = [i \in 1..Len(list) |-> <<>>]
            /\ outcomes' = [i \in 1..Len(list) |-> <<>>]
            /\ waits' = [i \in 1..Len(list) |-> <<>>]
            /\ relayed' = [i \in 1..Len(list) |-> 0]
            /\ pullStarts' = pullStarts + 1

\* handle_auto_advance for Secrets finishing the feature prompts like the base ones
auto_advance_secrets_viaFeatures ==
    IF current_secret_index >= Len(secret_prompts)
    THEN /\ collecting_feature_secrets' = FALSE
         /\ phase' = AdvancePhase(phase)
    ELSE UNCHANGED <<phase, collecting_feature_secrets>>

\* handle_auto_advance for Secrets going to Confirm after the last prompt whether or
\* not feature secrets were being collected
auto_advance_secrets_alwaysConfirm ==
    IF current_secret_index >= Len(secret_prompts)
    THEN /\ collecting_feature_secrets' = FALSE
         /\ phase' = "Confirm"
    ELSE UNCHANGED <<phase, collecting_feature_secrets>>

\* handle_auto_advance for Secrets leaving collecting_feature_secrets set
auto_advance_secrets_flagKept ==
    IF current_secret_index >= Len(secret_prompts)
    THEN IF collecting_feature_secrets
         THEN /\ phase' = "Confirm"
              /\ UNCHANGED collecting_feature_secrets
         ELSE /\ phase' = AdvancePhase(phase)
              /\ UNCHANGED collecting_feature_secrets
    ELSE UNCHANGED <<phase, collecting_feature_secrets>>

\* handle_auto_advance, Phase::Secrets (main.rs:569-580)
auto_advance_secrets ==
    IF current_secret_index >= Len(secret_prompts)
    THEN IF collecting_feature_secrets
         THEN /\ collecting_feature_secrets' = FALSE
              /\ phase' = "Confirm"
         ELSE /\ phase' = AdvancePhase(phase)
              /\ UNCHANGED collecting_feature_secrets
    ELSE UNCHANGED <<phase, collecting_feature_secrets>>

\* handle_auto_advance, Phase::Pull (main.rs:582-592)
auto_advance_pull ==
    /\ IF pull_statuses = <<>>
       THEN start_pull_phase
       ELSE UNCHANGED <<pull_statuses, pull_progress, pullVars, relayed, pullStarts>>
    /\ phase' = IF pull_progress'.total > 0 /\ pull_progress'.done >= pull_progress'.total
                THEN AdvancePhase(phase) ELSE phase
    /\ UNCHANGED collecting_feature_secrets

\* handle_auto_advance (main.rs:563-617) for the phases up to Pull
handle_auto_advance ==
    CASE phase = "Secrets" ->
            /\ auto_advance_secrets
            /\ UNCHANGED <<pull_statuses, pull_progress, pullVars, relayed, pullStarts>>
      [] phase = "Pull" -> auto_advance_pull
      [] OTHER ->
            UNCHANGED <<phase, collecting_feature_secrets, pull_statuses, pull_progress,
                        pullVars, relayed, pullStarts>>

WizardPhases == {"Secrets", "Features", "Confirm", "Pull"}

\* The control loop polls the keyboard: no key within the timeout, or one key
\* (main.rs:62-75)
WizKey ==
    /\ loop = "poll"
    /\ phase \in WizardPhases
    /\ \E key \in WizardKeys :
        /\ key = "Enter" /\ phase = "Confirm" /\ confirm_selected = 1 => cancels < MaxCancels
        /\ key \in CharKeys /\ phase = "Secrets" /\ current_secret_index < Len(secret_prompts)
              => TextHeld < MaxText
        /\ handle_key(key)
    /\ loop' = "drain"
    /\ UNCHANGED <<deploy_statuses, deploy_progress, manifest, skip_extensions>>
    /\ UNCHANGED <<pull_statuses, pull_progress, relayed, pullStarts>>
    /\ UNCHANGED <<async_rx, seq, executed, failed, received, dropped, doneMsgs>>
    /\ UNCHANGED <<phaseHist, pullVars, healthVars, healthHist, deployStarts, niVars, soloVars>>

\* try_recv finds the channel empty; handle_auto_advance runs; the loop ends if
\* should_quit is set (main.rs:78-87)
WizAutoAdvance ==
    /\ loop = "drain"
    /\ phase \in WizardPhases
    /\ async_rx = <<>>
    /\ handle_auto_advance
    /\ loop' = IF should_quit \/ phase' \notin WizardPhases THEN "stopped" ELSE "poll"
    /\ UNCHANGED <<current_secret_index, secret_input, should_quit, deploy_statuses,
                   deploy_progress, manifest, skip_extensions>>
    /\ UNCHANGED <<secret_prompts, features, feature_cursor, confirm_selected, config,
                   tokens, cancels>>
    /\ UNCHANGED <<async_rx, seq, executed, failed, received, dropped, doneMsgs>>
    /\ UNCHANGED <<phaseHist, healthVars, healthHist, deployStarts, niVars, soloVars>>

\* The App after run_preflight (main.rs:98-198): the prompts and the feature
\* selections built from the manifest if one was loaded, the phase advanced to Secrets
InitWizard ==
    /\ phase = "Secrets"
    /\ current_secret_index = 0
    /\ secret_input = <<>>
    /\ should_quit = FALSE
    /\ deploy_statuses = <<>>
    /\ deploy_progress = [done |-> 0, total |-> 0]
    /\ manifest \in WizardManifests \cup {NoManifest}
    /\ skip_extensions \in BOOLEAN
    \* the flag is read only for optional images
    /\ skip_extensions => \E k \in 1..Len(manifest.images) : ~manifest.images[k].required
    /\ secret_prompts = build_secret_prompts(manifest)
    /\ features = build_feature_selections(manifest)
    /\ feature_cursor = 0
    /\ collecting_feature_secrets = FALSE
    /\ confirm_selected = 0
    /\ config = NewConfig
    /\ pull_statuses = <<>> /\ pull_progress = [done |-> 0, total |-> 0]
    /\ relayed = <<>>
    /\ tokens = 0 /\ cancels = 0 /\ pullStarts = 0 /\ deployStarts = 0
    /\ async_rx = <<>> /\ seq = [pc |-> "unspawned", step_index |-> 0]
    /\ executed = <<>> /\ failed = {} /\ loop = "poll"
    /\ received = <<>> /\ dropped = <<>> /\ doneMsgs = 0
    /\ IdleHealth
    /\ IdleNi /\ IdleSolo
    /\ IdlePhaseHist
    /\ IdlePull

NextWizard ==
    \/ WizKey
    \/ WizAutoAdvance

SpecWizard == InitWizard /\ [][NextWizard]_vars

(***************************************************************************)
(* Claims about the wizard                                                 *)
(***************************************************************************)
\* The secret keys of the enabled features among the first n, in order
RECURSIVE EnabledKeys(_, _)
EnabledKeys(fs, n) ==
    IF n = 0 THEN <<>>
    ELSE EnabledKeys(fs, n - 1) \o
         (IF fs[n].enabled THEN [j \in 1..Len(fs[n].secrets) |-> fs[n].secrets[j].key]
          ELSE <<>>)

\* Enter was pressed in Features: the only step that generates an auth token
EnterInFeatures == phase = "Features" /\ tokens' = tokens + 1

FeaturePromptsOf(prompts) == SelectSeq(prompts, LAMBDA p : p.is_feature)

\* C16: Enter in Features with k >= 1 secret keys among the enabled features leads
\* to Secrets with the base prompts followed by exactly those k prompts, tagged as
\* feature prompts and unanswered, and the cursor on the first of them; while the
\* feature prompts are collected the phase stays Secrets, and it leaves Secrets
\* only for Confirm, when every prompt has been answered or skipped
C16_FeatureSecretsThenConfirm ==
    [][ LET keys == EnabledKeys(features, Len(features))
            k == Len(keys)
            base == BasePrompts(secret_prompts)
        IN
        /\ EnterInFeatures /\ k >= 1 =>
              /\ phase' = "Secrets"
              /\ collecting_feature_secrets'
              /\ Len(secret_prompts') = Len(base) + k
              /\ SubSeq(secret_prompts', 1, Len(base)) = base
              /\ \A j \in 1..k :
                    /\ secret_prompts'[Len(base) + j].key = keys[j]
                    /\ secret_prompts'[Len(base) + j].is_feature
                    /\ ~secret_prompts'[Len(base) + j].value.some
              /\ current_secret_index' = Len(base)
        /\ collecting_feature_secrets =>
              /\ phase = "Secrets"
              /\ phase' \in {"Secrets", "Confirm"}
              /\ phase' = "Confirm" => current_secret_index >= Len(secret_prompts)
              /\ loop = "drain" /\ current_secret_index >= Len(secret_prompts)
                    => phase' = "Confirm"
      ]_vars

\* Confirm reached for the first time with two feature prompts, one answered and
\* one skipped
C16_Witness ==
    /\ phase = "Confirm" /\ ~collecting_feature_secrets
    /\ tokens = 1 /\ cancels = 0
    /\ current_secret_index = Len(secret_prompts)
    /\ Len(FeaturePromptsOf(secret_prompts)) = 2
    /\ \E i, j \in 1..Len(secret_prompts) :
          /\ secret_prompts[i].is_feature /\ secret_prompts[i].value.some
          /\ secret_prompts[j].is_feature /\ ~secret_prompts[j].value.some

\* The manifest was loaded and declares no optional features
NoOptionalFeatures == manifest.loaded /\ manifest.optional_features = <<>>

\* One prompt per entry of the manifest's required_secrets, in manifest order
PromptsFollowManifest ==
    /\ Len(secret_prompts) = Len(manifest.required_secrets)
    /\ \A k \in 1..Len(secret_prompts) :
          /\ secret_prompts[k].key = manifest.required_secrets[k].key
          /\ secret_prompts[k].required = manifest.required_secrets[k].required
          /\ ~secret_prompts[k].is_feature

\* handle_auto_advance has run since the phase became Pull
PullEntered == phase = "Pull" /\ loop # "drain"

\* The status list and pull_all's argument are exactly this list of images
PullsExactly(list) ==
    /\ Len(pull_statuses) = Len(list)
    /\ \A k \in 1..Len(list) :
          pull_statuses[k].image = list[k].component /\ pull_statuses[k].status = PullPending
    /\ pull_progress = [done |-> 0, total |-> Len(list)]
    /\ list # <<>> => pullStarts = 1 /\ images = Len(list)
    /\ list = <<>> => pullStarts = 0

\* Enter in Features goes to Confirm and leaves the prompts and the cursor alone
EnterGoesToConfirm ==
    EnterInFeatures =>
        /\ phase' = "Confirm"
        /\ UNCHANGED <<secret_prompts, current_secret_index, collecting_feature_secrets>>

\* The manifest's images without the optional ones when --skip-extensions is given
ImagesToPull ==
    SelectSeq(manifest.images, LAMBDA img : img.required \/ ~skip_extensions)

\* C17 as stated: with a manifest without optional features the prompts are those
\* of the manifest's required_secrets in order, Enter in Features goes straight to
\* Confirm, and Pull pulls every image of the manifest
C17_NoFeaturesPullsAllImages ==
    /\ [](NoOptionalFeatures =>
            /\ PromptsFollowManifest
            /\ PullEntered => PullsExactly(manifest.images))
    /\ [][NoOptionalFeatures => EnterGoesToConfirm]_vars

\* C17 amended: as above, but Pull pulls the manifest's images without the optional
\* ones when --skip-extensions is given
C17_NoFeaturesPullsSelectedImages ==
    /\ [](NoOptionalFeatures =>
            /\ PromptsFollowManifest
            /\ PullEntered => PullsExactly(ImagesToPull))
    /\ [][NoOptionalFeatures => EnterGoesToConfirm]_vars

\* Pull entered after one pass through the wizard: two prompts, two required images,
\* two pulls handed to pull_all
C17_Witness ==
    /\ NoOptionalFeatures /\ PullEntered
    /\ tokens = 1 /\ cancels = 0
    /\ Len(secret_prompts) = 2
    /\ Len(manifest.images) = 2 /\ \A k \in 1..2 : manifest.images[k].required
    /\ images = 2 /\ pullStarts = 1

(***************************************************************************)
(* Non-interactive mode: run_non_interactive (main.rs:1066-1256)           *)
(***************************************************************************)
\* The manifests of the model: default_manifest cut to two images and the github
\* feature (manifest.rs:100-184), and one read from a file
NiDefaultManifest ==
    WizardManifest(<<Image("brain", TRUE), Image("voice", FALSE)>>,
                   <<ManifestSecret("ANTHROPIC_OAUTH_TOKEN", TRUE)>>,
                   <<ManifestFeature("github", FALSE, <<"GITHUB_TOKEN">>)>>)

NiFileManifest == WizardManifest(<<Image("brain", TRUE)>>, <<>>, <<>>)

\* The credential test left out
CredentialsMissing_unchecked(e) == FALSE

\* oauth_token.is_none() && api_key.is_none() (main.rs:1095)
CredentialsMissing(e) == ~e.oauth /\ ~e.api_key

\* The GITHUB_TOKEN secrets created for the features among the first n
\* (main.rs:1176-1193)
RECURSIVE NiFeatureSecrets(_, _, _)
NiFeatureSecrets(m, e, n) ==
    IF n = 0 THEN <<>>
    ELSE NiFeatureSecrets(m, e, n - 1) \o
         [j \in 1..Cardinality({i \in 1..Len(m.optional_features[n].secrets) :
                                   m.optional_features[n].secrets[i] = "GITHUB_TOKEN" /\ e.github})
             |-> "bakerst-github-secrets"]

\* The writes to the cluster, in order (main.rs:1147-1235)
NiClusterOps(m, e) ==
    <<"Namespace", "bakerst-brain-secrets", "bakerst-worker-secrets">>
    \o NiFeatureSecrets(m, e, Len(m.optional_features))
    \o <<"bakerst-gateway-secrets", "ConfigMap", "PVCs", "RBAC", "NATS", "Qdrant", "Brain",
         "Worker", "Gateway", "UI", "Network Policies">>

\* std::process::exit(code), or main returning: Err gives exit status 1, Ok gives 0
NiExit(code) == [ni EXCEPT !.pc = "exited", !.exit = code]

\* k8s::check_cluster (main.rs:1071-1075)
NiCheckCluster ==
    /\ ni.pc = "check_cluster"
    /\ ni' = IF env.cluster_up THEN [ni EXCEPT !.pc = "manifest"] ELSE NiExit(1)
    /\ UNCHANGED <<appVars, phaseHist, pullVars, deployVars>>
    /\ UNCHANGED <<healthVars, healthHist, wizVars, wizHist, env, soloVars, deployStarts>>

\* The manifest: from the file of --manifest, fetched, or the default one
\* (main.rs:1077-1086)
NiManifest ==
    /\ ni.pc = "manifest"
    /\ CASE env.manifest_file = "bad" -> ni' = NiExit(1) /\ manifest' = manifest
         [] env.manifest_file = "good" ->
                ni' = [ni EXCEPT !.pc = "secrets"] /\ manifest' = NiFileManifest
         [] OTHER ->
                ni' = [ni EXCEPT !.pc = "secrets"] /\ manifest' = NiDefaultManifest
    /\ UNCHANGED <<phase, current_secret_index, secret_input, should_quit, deploy_statuses,
                   deploy_progress, skip_extensions>>
    /\ UNCHANGED <<phaseHist, pullVars, deployVars>>
    /\ UNCHANGED <<healthVars, healthHist, wizVars, wizHist, env, soloVars, deployStarts>>

\* Secrets and features from the environment (main.rs:1092-1121)
NiSecrets ==
    /\ ni.pc = "secrets"
    /\ ni' = IF CredentialsMissing(env) THEN NiExit(1) ELSE [ni EXCEPT !.pc = "pull"]
    /\ UNCHANGED <<appVars, phaseHist, pullVars, deployVars>>
    /\ UNCHANGED <<healthVars, healthHist, wizVars, wizHist, env, soloVars, deployStarts>>

\* pull_all is called with every image of the manifest (main.rs:1127-1131)
NiPull ==
    /\ ni.pc = "pull"
    /\ ni' = [ni EXCEPT !.pc = "pulling"]
    /\ images' = Len(manifest.images)
    /\ permits' = MAX_CONCURRENT /\ spawned' = 0 /\ joined' = 0 /\ results' = <<>>
    /\ task' = [i \in 1..Len(manifest.images) |->
                   [pc |-> "unspawned", attempt |-> 0, result |-> NoResult]]
    /\ sent' = [i \in 1..Len(manifest.images) |-> <<>>]
    /\ outcomes' = [i \in 1..Len(manifest.images) |-> <<>>]
    /\ waits' = [i \in 1..Len(manifest.images) |-> <<>>]
    /\ UNCHANGED <<appVars, phaseHist, deployVars>>
    /\ UNCHANGED <<healthVars, healthHist, wizVars, wizHist, env, soloVars, deployStarts>>

\* pull_all has returned; failed pulls are only counted in a warning
\* (main.rs:1131-1140)
NiPulled ==
    /\ ni.pc = "pulling"
    /\ joined = images
    /\ ni' = [ni EXCEPT !.pc = "connect"]
    /\ UNCHANGED <<appVars, phaseHist, pullVars, deployVars>>
    /\ UNCHANGED <<healthVars, healthHist, wizVars, wizHist, env, soloVars, deployStarts>>

\* kube::Client::try_default().await? (main.rs:1144)
NiConnect ==
    /\ ni.pc = "connect"
    /\ \/ ni' = [ni EXCEPT !.pc = "ops", !.k = 0]
       \/ ni' = NiExit(1)
    /\ UNCHANGED <<appVars, phaseHist, pullVars, deployVars>>
    /\ UNCHANGED <<healthVars, healthHist, wizVars, wizHist, env, soloVars, deployStarts>>

\* The next write to the cluster succeeds, or fails and `?` ends the run
\* (main.rs:1147-1235)
NiClusterOp ==
    /\ ni.pc = "ops"
    /\ LET ops == NiClusterOps(manifest, env) IN
       \/ ni' = [ni EXCEPT !.k = @ + 1,
                           !.applied = Append(@, ops[ni.k + 1]),
                           !.pc = IF ni.k + 1 = Len(ops) THEN "health" ELSE "ops"]
       \/ ni' = NiExit(1)
    /\ UNCHANGED <<appVars, phaseHist, pullVars, deployVars>>
    /\ UNCHANGED <<healthVars, healthHist, wizVars, wizHist, env, soloVars, deployStarts>>

\* wait_for_rollout for each of the six deployments, whose results are only printed,
\* and the return of Ok (main.rs:1237-1255)
NiComplete ==
    /\ ni.pc = "health"
    /\ ni' = NiExit(0)
    /\ UNCHANGED <<appVars, phaseHist, pullVars, deployVars>>
    /\ UNCHANGED <<healthVars, healthHist, wizVars, wizHist, env, soloVars, deployStarts>>

\* run_non_interactive is called in any environment
InitNonInteractive ==
    /\ IdleApp
    /\ IdlePhaseHist
    /\ IdlePull
    /\ IdleDeploy
    /\ IdleHealth
    /\ IdleWiz
    /\ IdleSolo
    /\ deployStarts = 0
    /\ env \in [cluster_up : BOOLEAN, oauth : BOOLEAN, api_key : BOOLEAN, github : BOOLEAN,
                manifest_file : {"none", "good", "bad"}]
    /\ ni = [pc |-> "check_cluster", exit |-> 0, k |-> 0, applied |-> <<>>]

NextNonInteractive ==
    \/ NiCheckCluster
    \/ NiManifest
    \/ NiSecrets
    \/ NiPull
    \/ NiPulled
    \/ NiConnect
    \/ NiClusterOp
    \/ NiComplete
    \/ Spawn
    \/ Join
    \/ \E i \in Artifacts :
        \/ TaskStart(i)
        \/ DockerEnds(i)
        \/ BackoffEnds(i)
        \/ TaskReport(i)
        \/ TaskRelease(i)

SpecNonInteractive == InitNonInteractive /\ [][NextNonInteractive]_vars

\* C18: in non-interactive mode, when neither ANTHROPIC_OAUTH_TOKEN nor
\* ANTHROPIC_API_KEY is set, or the cluster is unreachable, the run is still in its
\* preflight or has exited with a non-zero status; no image pull was started and
\* nothing was written to the cluster
C18_ExitsBeforePullOrApply ==
    (~env.cluster_up \/ (~env.oauth /\ ~env.api_key)) =>
        /\ ni.pc \in {"check_cluster", "manifest", "secrets", "exited"}
        /\ ni.pc = "exited" => ni.exit # 0
        /\ images = 0 /\ spawned = 0
        /\ ni.applied = <<>>

\* The run has exited with status 1 at the credential test, the cluster being
\* reachable and the manifest loaded
C18_Witness ==
    /\ env.cluster_up /\ ~env.oauth /\ ~env.api_key
    /\ manifest.loaded
    /\ ni.pc = "exited" /\ ni.exit = 1
    /\ images = 0 /\ ni.applied = <<>>

(***************************************************************************)
(* The control loop in Pull: pull_all, the relay task and handle_pull_event *)
(* (main.rs:481-520, 582-592, 619-667)                                     *)
(***************************************************************************)
\* handle_pull_event counting a pull as done when it starts as well
handle_pull_event_startedCounts(event) ==
    LET has == event.index <= Len(pull_statuses) IN
    /\ pull_statuses' = IF has THEN [pull_statuses EXCEPT ![event.index].status =
                                        PullInProgress]
                        ELSE pull_statuses
    /\ pull_progress' = [pull_progress EXCEPT !.done = @ + 1]

\* handle_pull_event leaving a failed pull out of the done count
handle_pull_event_failedNotCounted(event) ==
    LET has == event.index <= Len(pull_statuses) IN
    CASE event.type = "Completed" ->
            /\ pull_statuses' = IF has THEN [pull_statuses EXCEPT ![event.index].status = PullDone]
                                ELSE pull_statuses
            /\ pull_progress' = [pull_progress EXCEPT !.done = @ + 1]
      [] event.type = "Failed" ->
            /\ pull_statuses' = IF has THEN [pull_statuses EXCEPT ![event.index].status =
                                                PullFailed(event.error)]
                                ELSE pull_statuses
            /\ pull_progress' = pull_progress
      [] OTHER ->
            /\ pull_statuses' = IF has THEN [pull_statuses EXCEPT ![event.index].status =
                                                PullInProgress]
                                ELSE pull_statuses
            /\ pull_progress' = pull_progress

\* handle_pull_event (main.rs:481-520); index counts the artifacts from 1
handle_pull_event(event) ==
    LET has == event.index <= Len(pull_statuses) IN
    CASE event.type = "Started" ->
            /\ pull_statuses' = IF has THEN [pull_statuses EXCEPT ![event.index].status =
                                                PullInProgress]
                                ELSE pull_statuses
            /\ pull_progress' = pull_progress
      [] event.type = "Completed" ->
            /\ pull_statuses' = IF has THEN [pull_statuses EXCEPT ![event.index].status = PullDone]
                                ELSE pull_statuses
            /\ pull_progress' = [pull_progress EXCEPT !.done = @ + 1]
      [] event.type = "Failed" ->
            /\ pull_statuses' = IF has THEN [pull_statuses EXCEPT ![event.index].status =
                                                PullFailed(event.error)]
                                ELSE pull_statuses
            /\ pull_progress' = [pull_progress EXCEPT !.done = @ + 1]
      [] OTHER ->
            /\ pull_statuses' = IF has THEN [pull_statuses EXCEPT ![event.index].status =
                                                PullInProgress]
                                ELSE pull_statuses
            /\ pull_progress' = pull_progress

\* The relay task forwarding an artifact's events newest first
Relay_newestFirst(i) ==
    /\ loop \notin {None, "stopped"}
    /\ i \in 1..Len(relayed)
    /\ relayed[i] < Len(sent[i])
    /\ async_rx' = Append(async_rx, sent[i][Len(sent[i]) - relayed[i]])
    /\ relayed' = [relayed EXCEPT ![i] = @ + 1]
    /\ UNCHANGED <<appVars, phaseHist, pullVars>>
    /\ UNCHANGED <<seq, executed, failed, loop, received, dropped, doneMsgs>>
    /\ UNCHANGED <<secret_prompts, features, feature_cursor, collecting_feature_secrets,
                   confirm_selected, config, pull_statuses, pull_progress>>
    /\ UNCHANGED <<healthVars, healthHist, wizHist, niVars, soloVars, deployStarts>>

\* The relay task forwards the next PullEvent of an artifact to the control loop's
\* channel (main.rs:659-666); it runs while the loop is there to receive
Relay(i) ==
    /\ loop \notin {None, "stopped"}
    /\ i \in 1..Len(relayed)
    /\ relayed[i] < Len(sent[i])
    /\ async_rx' = Append(async_rx, sent[i][relayed[i] + 1])
    /\ relayed' = [relayed EXCEPT ![i] = @ + 1]
    /\ UNCHANGED <<appVars, phaseHist, pullVars>>
    /\ UNCHANGED <<seq, executed, failed, loop, received, dropped, doneMsgs>>
    /\ UNCHANGED <<secret_prompts, features, feature_cursor, collecting_feature_secrets,
                   confirm_selected, config, pull_statuses, pull_progress>>
    /\ UNCHANGED <<healthVars, healthHist, wizHist, niVars, soloVars, deployStarts>>

\* The control loop dequeues one pull event and applies it (main.rs:78-80, 457-459)
PullLoopRecv ==
    /\ loop = "drain"
    /\ phase \in WizardPhases
    /\ async_rx # <<>>
    /\ handle_pull_event(Head(async_rx))
    /\ async_rx' = Tail(async_rx)
    /\ received' = Append(received, Head(async_rx))
    /\ UNCHANGED <<appVars, phaseHist, pullVars>>
    /\ UNCHANGED <<seq, executed, failed, loop, dropped, doneMsgs>>
    /\ UNCHANGED <<secret_prompts, features, feature_cursor, collecting_feature_secrets,
                   confirm_selected, config, relayed>>
    /\ UNCHANGED <<healthVars, healthHist, wizHist, niVars, soloVars, deployStarts>>

\* The control loop enters Pull: Confirm was chosen, nothing is started yet
InitPullPhase ==
    /\ phase = "Pull"
    /\ current_secret_index = 0
    /\ secret_input = <<>>
    /\ should_quit = FALSE
    /\ deploy_statuses = <<>>
    /\ deploy_progress = [done |-> 0, total |-> 0]
    /\ manifest \in {NoManifest} \cup {WizardManifest(i, <<>>, <<>>) : i \in ImageLists}
    /\ skip_extensions \in BOOLEAN
    /\ async_rx = <<>> /\ seq = [pc |-> "unspawned", step_index |-> 0]
    /\ executed = <<>> /\ failed = {} /\ loop = "poll"
    /\ received = <<>> /\ dropped = <<>> /\ doneMsgs = 0
    /\ IdleWiz
    /\ IdleNi /\ IdleSolo
    /\ deployStarts = 0
    /\ IdleHealth
    /\ IdlePhaseHist
    /\ IdlePull

NextPullPhase ==
    \/ WizKey
    \/ PullLoopRecv
    \/ WizAutoAdvance
    \/ Spawn
    \/ Join
    \/ \E i \in Artifacts :
        \/ TaskStart(i)
        \/ DockerEnds(i)
        \/ BackoffEnds(i)
        \/ TaskReport(i)
        \/ TaskRelease(i)
        \/ Relay(i)

SpecPullPhase == InitPullPhase /\ [][NextPullPhase]_vars

\* A step in which handle_auto_advance ran: the control loop leaves its drain
AutoAdvanceRan == loop = "drain" /\ loop' # "drain"

\* The entries of a status collection, without their statuses
PullImages(statuses) == [k \in 1..Len(statuses) |-> statuses[k].image]
DeployLabels(statuses) == [k \in 1..Len(statuses) |-> statuses[k].label]

\* C20: once handle_auto_advance has run in Pull, Deploy or Health, the coordinator
\* of that phase has been started exactly once, whatever iterations, keys and events
\* came before; and a status collection that has entries keeps them
C20_CoordinatorStartedOnce ==
    [][ /\ AutoAdvanceRan /\ phase = "Pull" => pullStarts' = 1
        /\ AutoAdvanceRan /\ phase = "Deploy" => deployStarts' = 1
        /\ AutoAdvanceRan /\ phase = "Health" => healthStarts' = 1
        /\ pull_statuses # <<>> => PullImages(pull_statuses') = PullImages(pull_statuses)
        /\ deploy_statuses # <<>> => DeployLabels(deploy_statuses') = DeployLabels(deploy_statuses)
        /\ pullStarts' <= 1 /\ deployStarts' <= 1 /\ healthStarts' <= 1
      ]_vars

(***************************************************************************)
(* Claims about the control loop as a whole                                *)
(***************************************************************************)
\* C21: once should_quit is set the control loop receives no further message from
\* a coordinator, the phase, the status tables and the progress pairs stay as they
\* are, and no coordinator is started
C21_QuitFreezesLoop ==
    [][ should_quit =>
          /\ Len(async_rx') >= Len(async_rx)
          /\ UNCHANGED <<phase, deploy_statuses, deploy_progress, pull_statuses, pull_progress,
                         pod_statuses, health_done, health_failed>>
          /\ UNCHANGED <<pullStarts, deployStarts, healthStarts>>
      ]_vars


\* Position of a phase in the fixed order (app.rs:2-12)
PhaseIdx(p) == CHOOSE i \in 1..Len(PhaseOrder) : PhaseOrder[i] = p

\* C22: every change of phase is a step to the next phase of the fixed order, the
\* edge Confirm -> Secrets, the edge Features -> Secrets, or the edge
\* Secrets -> Confirm taken while feature secrets are being collected; from Pull on
\* the phase never moves to an earlier one
C22_PhaseEdges ==
    [][ /\ phase' # phase =>
              \/ PhaseIdx(phase') = PhaseIdx(phase) + 1
              \/ phase = "Confirm" /\ phase' = "Secrets"
              \/ phase = "Features" /\ phase' = "Secrets"
              \/ phase = "Secrets" /\ phase' = "Confirm" /\ collecting_feature_secrets
        /\ PhaseIdx(phase) >= PhaseIdx("Pull") => PhaseIdx(phase') >= PhaseIdx(phase)
      ]_vars

\* Pull reached after a Cancel at Confirm, a second pass through Features and a
\* detour through the feature prompts
C22_Witness ==
    /\ phase = "Pull" /\ cancels = 1 /\ tokens = 2
    /\ Len(FeaturePromptsOf(secret_prompts)) >= 1
    /\ pullStarts = 1

\* C23: a failing pull's text is classified as a local-configuration error exactly
\* when it contains, in any letter case, one of the signatures (credential, not found
\* in PATH, daemon not running or unreachable, permission denied); an attempt that
\* ended with such a text is the artifact's last attempt, and no wait follows it
C23_LocalErrorsClassified ==
    \A i \in Artifacts : \A k \in 1..Len(outcomes[i]) :
        outcomes[i][k].kind = "exit" =>
            /\ is_local_docker_error(outcomes[i][k].stderr)
                  <=> HasLocalSignature(outcomes[i][k].stderr)
            /\ HasLocalSignature(outcomes[i][k].stderr) =>
                  /\ k = Len(outcomes[i])
                  /\ Len(waits[i]) < k

\* The pull events the control loop has received for artifact i, in order of receipt
ReceivedFor(i) == SelectSeq(received, LAMBDA e : e.index = i)

\* C24: for each artifact the events the control loop has received start with
\* Started, hold no second Started, and hold nothing after a terminal event
\* (Completed or Failed), however the events of other artifacts are interleaved
C24_EventsOrderedPerArtifact ==
    \A i \in 1..Len(pull_statuses) :
        LET r == ReceivedFor(i) IN
            /\ r # <<>> => r[1].type = "Started"
            /\ \A k \in 2..Len(r) : r[k].type # "Started"
            /\ \A k \in 1..(Len(r) - 1) : r[k].type \notin TerminalTypes

\* Both artifacts of a two-image pull were received to the end, the second one's
\* events between the first one's Started and its terminal event, one pull failed
C24_Witness ==
    /\ Len(pull_statuses) = 2 /\ Len(received) = 4
    /\ received[1].index = 1 /\ received[2].index = 2
    /\ received[3].index = 2 /\ received[4].index = 1
    /\ received[3].type = "Failed" /\ received[4].type = "Completed"

\* The positions in observed' of the pods listed by this step
NewlyObserved == (Len(observed) + 1)..Len(observed')

\* The crash-looping pods among them
NewCrashes == {k \in NewlyObserved : observed'[k].crash}

Min(a, b) == IF a <= b THEN a ELSE b

\* C25: of the crash-looping pods a listing returns for a workload, only as many as
\* the workload has recovery attempts left (3 less the attempts used) are deleted and
\* announced by a RecoveryAttempt event, none once the 3 are used; every one of them
\* is still put on the cycle's list of not-ready pods with the error
\* "CrashLoopBackOff", and the cycle is not all-healthy
C25_ExhaustedBudgetStillReported ==
    [][ \A w \in WorkloadNames :
          (Len(observed') > Len(observed) /\ observed'[Len(observed')].deployment = w) =>
              LET left == MAX_RECOVERY_ATTEMPTS - recovery_attempts[w]
                  used == Min(Cardinality(NewCrashes), left)
              IN /\ deletions'[w] = deletions[w] + used
                 /\ recoveryEvents'[w] = recoveryEvents[w] + used
                 /\ recovery_attempts'[w] = recovery_attempts[w] + used
                 /\ \A k \in NewCrashes :
                       /\ ~poller'.all_healthy
                       /\ \E u \in 1..Len(poller'.unhealthy) :
                             /\ poller'.unhealthy[u].name = observed'[k].name
                             /\ ~poller'.unhealthy[u].ready
                             /\ poller'.unhealthy[u].error = "CrashLoopBackOff"
      ]_vars

\* A third cycle lists two crash-looping pods of a workload whose three attempts
\* were used in the cycles before: neither is deleted, both are on the not-ready list
C25_Witness ==
    /\ cycles = 3 /\ poller.pc = "list"
    /\ recovery_attempts["brain"] = 3 /\ deletions["brain"] = 3
    /\ crashSeen["brain"] = 6
    /\ Cardinality({k \in 1..Len(observed) :
                        observed[k].deployment = "brain" /\ observed[k].crash}) = 2
    /\ Cardinality({u \in 1..Len(poller.unhealthy) :
                        poller.unhealthy[u].error = "CrashLoopBackOff"}) = 2
    /\ ~poller.all_healthy

\* The prompt list Enter in Features is to leave: the prompts that no feature
\* contributed, as they are, then one valueless optional prompt per secret key of the
\* enabled features
Rebuilt(prompts, fs) ==
    LET keys == EnabledKeys(fs, Len(fs)) IN
        SelectSeq(prompts, LAMBDA p : ~p.is_feature)
        \o [j \in 1..Len(keys) |->
               [key |-> keys[j], required |-> FALSE, is_feature |-> TRUE, value |-> NoneStr]]

\* C26: Enter in Features leaves the base prompts unchanged, followed by exactly one
\* valueless prompt per secret key of each enabled feature, whatever feature prompts
\* an earlier pass left behind; rebuilding the resulting list again with the same
\* selection gives the same list
C26_FeaturePromptsRebuilt ==
    [][ EnterInFeatures =>
          /\ secret_prompts' = Rebuilt(secret_prompts, features)
          /\ Rebuilt(secret_prompts', features) = secret_prompts'
          /\ Len(FeaturePromptsOf(secret_prompts')) = Len(EnabledKeys(features, Len(features)))
      ]_vars

\* After Cancel at Confirm, Enter in Features was pressed a second time: the list
\* holds an answered base prompt and two fresh feature prompts and nothing else
C26_Witness ==
    /\ tokens = 2 /\ cancels = 1
    /\ phase = "Secrets" /\ collecting_feature_secrets
    /\ current_secret_index = Len(secret_prompts) - 2
    /\ Len(FeaturePromptsOf(secret_prompts)) = 2
    /\ \A k \in 1..Len(secret_prompts) :
          secret_prompts[k].is_feature => ~secret_prompts[k].value.some
    /\ \E k \in 1..Len(secret_prompts) :
          ~secret_prompts[k].is_feature /\ secret_prompts[k].value.some

\* Confirm has been reached in this run
ConfirmReached == cancels >= 1 \/ PhaseIdx(phase) >= PhaseIdx("Confirm")

EmptyMap == [k \in {} |-> <<>>]
Insert(m, key, value) ==
    [k \in DOMAIN m \cup {key} |-> IF k = key THEN value ELSE m[k]]

\* The text of the n-th auth token generated in the run (templates.rs:21-25)
AuthTokenText(n) ==
    CASE n = 0 -> <<>> [] n = 1 -> <<"#", "1">> [] n = 2 -> <<"#", "2">>
      [] OTHER -> <<"#", "3">>

\* `if let Some(ref v) = opt { data.insert(key, v.clone()) }`
InsertSome(m, key, opt) == IF opt.some THEN Insert(m, key, opt.text) ELSE m

\* Brain secrets (main.rs:864-876)
brain_data(cfg) ==
    LET d1 == InsertSome(EmptyMap, "ANTHROPIC_OAUTH_TOKEN", cfg.oauth_token)
        d2 == InsertSome(d1, "ANTHROPIC_API_KEY", cfg.api_key)
        d3 == InsertSome(d2, "VOYAGE_API_KEY", cfg.voyage_api_key)
        d4 == Insert(d3, "AUTH_TOKEN", AuthTokenText(cfg.auth_token))
    IN Insert(d4, "AGENT_NAME", cfg.agent_name)

\* Worker secrets (main.rs:879-887)
worker_data(cfg) ==
    LET d1 == InsertSome(EmptyMap, "ANTHROPIC_OAUTH_TOKEN", cfg.oauth_token)
        d2 == InsertSome(d1, "ANTHROPIC_API_KEY", cfg.api_key)
    IN Insert(d2, "AGENT_NAME", cfg.agent_name)

\* The (key, value) pairs of the enabled features that hold a value, in the order
\* of the two loops (main.rs:893-899)
RECURSIVE EnabledValues(_, _)
EnabledValues(fs, n) ==
    IF n = 0 THEN <<>>
    ELSE EnabledValues(fs, n - 1) \o
         (IF fs[n].enabled THEN SelectSeq(fs[n].secrets, LAMBDA s : s.value.some)
          ELSE <<>>)

GatewayKeys == {"TELEGRAM_BOT_TOKEN", "DISCORD_BOT_TOKEN", "DISCORD_APP_ID"}

\* gateway_data after AUTH_TOKEN and the first n of pairs: the pairs whose key is one
\* of the three gateway keys are inserted (main.rs:890-903)
RECURSIVE GatewayInserts(_, _, _)
GatewayInserts(cfg, pairs, n) ==
    IF n = 0 THEN Insert(EmptyMap, "AUTH_TOKEN", AuthTokenText(cfg.auth_token))
    ELSE LET rest == GatewayInserts(cfg, pairs, n - 1) IN
         IF pairs[n].key \in GatewayKeys
         THEN Insert(rest, pairs[n].key, pairs[n].value.text)
         ELSE rest

\* Gateway secrets with the values of the disabled features taken as well
gateway_data_disabledToo(cfg, fs) ==
    LET all == [k \in 1..Len(fs) |-> [fs[k] EXCEPT !.enabled = TRUE]]
        pairs == EnabledValues(all, Len(all))
    IN GatewayInserts(cfg, pairs, Len(pairs))

\* Gateway secrets (main.rs:890-921)
gateway_data(cfg, fs) ==
    LET pairs == EnabledValues(fs, Len(fs))
    IN GatewayInserts(cfg, pairs, Len(pairs))

\* create_secret's arguments
SecretCall(name, data) == [name |-> name, data |-> data]

\* The secrets created inside the loop, one per pair with the key GITHUB_TOKEN or
\* PERPLEXITY_API_KEY (main.rs:904-917)
OwnSecretCalls(pairs) ==
    LET own == SelectSeq(pairs, LAMBDA s : s.key \in {"GITHUB_TOKEN", "PERPLEXITY_API_KEY"})
    IN [j \in 1..Len(own) |->
            IF own[j].key = "GITHUB_TOKEN"
            THEN SecretCall("bakerst-github-secrets",
                            Insert(EmptyMap, "GITHUB_TOKEN", own[j].value.text))
            ELSE SecretCall("bakerst-perplexity-secrets",
                            Insert(EmptyMap, "PERPLEXITY_API_KEY", own[j].value.text))]

\* The create_secret calls of create_all_secrets, in program order
create_secret_calls(cfg, fs) ==
    <<SecretCall("bakerst-brain-secrets", brain_data(cfg)),
      SecretCall("bakerst-worker-secrets", worker_data(cfg))>>
    \o OwnSecretCalls(EnabledValues(fs, Len(fs)))
    \o <<SecretCall("bakerst-gateway-secrets", gateway_data(cfg, fs))>>

\* k8s::create_secret(..).await succeeds: the secret is applied; after the last one
\* create_all_secrets returns Ok(())
CreateSecretOk ==
    /\ cas = "running"
    /\ LET calls == create_secret_calls(config, features) IN
        /\ created' = Append(created, calls[Len(created) + 1])
        /\ cas' = IF Len(created) + 1 = Len(calls) THEN "ok" ELSE "running"
    /\ UNCHANGED <<appVars, phaseHist, pullVars, deployVars>>
    /\ UNCHANGED <<healthVars, healthHist, wizVars, wizHist, niVars, rollout, deployStarts>>

\* k8s::create_secret(..).await? fails: create_all_secrets returns the error
CreateSecretErr ==
    /\ cas = "running"
    /\ cas' = "err"
    /\ UNCHANGED <<appVars, phaseHist, pullVars, deployVars>>
    /\ UNCHANGED <<healthVars, healthHist, wizVars, wizHist, niVars, created, rollout,
                   deployStarts>>

\* The features of the configurations create_all_secrets is checked with, and the
\* value each of their keys holds when one was captured
SecretFeatures ==
    <<[id |-> "telegram", secrets |-> <<"TELEGRAM_BOT_TOKEN">>],
      [id |-> "discord", secrets |-> <<"DISCORD_BOT_TOKEN", "DISCORD_APP_ID">>],
      [id |-> "github", secrets |-> <<"GITHUB_TOKEN", "GITHUB_ORG">>],
      [id |-> "perplexity", secrets |-> <<"PERPLEXITY_API_KEY">>]>>

CapturedText(key) ==
    CASE key = "TELEGRAM_BOT_TOKEN" -> <<"t">>
      [] key = "DISCORD_BOT_TOKEN" -> <<"d">>
      [] key = "DISCORD_APP_ID" -> <<"i">>
      [] key = "GITHUB_TOKEN" -> <<"g">>
      [] key = "GITHUB_ORG" -> <<"o">>
      [] key = "PERPLEXITY_API_KEY" -> <<"p">>

\* config.features: every feature enabled or not, every key with or without a value
FeatureSelections ==
    {[k \in 1..Len(SecretFeatures) |->
        [id |-> SecretFeatures[k].id,
         enabled |-> k \in on,
         secrets |-> [j \in 1..Len(SecretFeatures[k].secrets) |->
                        [key |-> SecretFeatures[k].secrets[j],
                         value |-> IF SecretFeatures[k].secrets[j] \in held
                                   THEN SomeStr(CapturedText(SecretFeatures[k].secrets[j]))
                                   ELSE NoneStr]]]] :
       on \in SUBSET (1..Len(SecretFeatures)),
       held \in SUBSET {"TELEGRAM_BOT_TOKEN", "DISCORD_BOT_TOKEN", "DISCORD_APP_ID",
                        "GITHUB_TOKEN", "GITHUB_ORG", "PERPLEXITY_API_KEY"}}

\* InstallConfig when the deploy sequencer calls create_all_secrets
SecretConfigs ==
    {[oauth_token |-> o, api_key |-> a, voyage_api_key |-> v,
      agent_name |-> <<"B", "a", "k", "e", "r">>, auth_token |-> 1] :
       o \in {NoneStr, SomeStr(<<"O">>)}, a \in {NoneStr, SomeStr(<<"A">>)},
       v \in {NoneStr, SomeStr(<<"V">>)}}

\* create_all_secrets is called with any configuration
InitSecrets ==
    /\ IdleApp
    /\ IdlePhaseHist
    /\ IdlePull
    /\ IdleDeploy
    /\ IdleHealth
    /\ IdleNi
    /\ deployStarts = 0
    /\ secret_prompts = <<>> /\ feature_cursor = 0
    /\ collecting_feature_secrets = FALSE /\ confirm_selected = 0
    /\ features \in FeatureSelections
    /\ config \in SecretConfigs
    /\ pull_statuses = <<>> /\ pull_progress = [done |-> 0, total |-> 0]
    /\ relayed = <<>>
    /\ tokens = 1 /\ cancels = 0 /\ pullStarts = 0
    /\ created = <<>> /\ cas = "running"
    /\ rollout = [pc |-> "not_called", timeout |-> 0, elapsed |-> 0, polls |-> 0,
                  late |-> 0, seen |-> <<>>]

NextSecrets ==
    \/ CreateSecretOk
    \/ CreateSecretErr

SpecSecrets == InitSecrets /\ [][NextSecrets]_vars

\* The values captured for `key` by the enabled features of the configuration
EnabledValuesOf(key) ==
    UNION {{features[f].secrets[j].value.text :
                j \in {i \in 1..Len(features[f].secrets) :
                            /\ features[f].secrets[i].key = key
                            /\ features[f].secrets[i].value.some}} :
           f \in {g \in 1..Len(features) : features[g].enabled}}

\* The values held by the features that are not enabled
DisabledValues ==
    UNION {{features[f].secrets[j].value.text :
                j \in {i \in 1..Len(features[f].secrets) : features[f].secrets[i].value.some}} :
           f \in {g \in 1..Len(features) : ~features[g].enabled}}

\* The keys among `keys` whose optional value in the configuration is present
PresentKeys(keys) ==
    {k \in keys : CASE k = "ANTHROPIC_OAUTH_TOKEN" -> config.oauth_token.some
                    [] k = "ANTHROPIC_API_KEY" -> config.api_key.some
                    [] k = "VOYAGE_API_KEY" -> config.voyage_api_key.some
                    [] OTHER -> TRUE}

ConfigText(k) ==
    CASE k = "ANTHROPIC_OAUTH_TOKEN" -> config.oauth_token.text
      [] k = "ANTHROPIC_API_KEY" -> config.api_key.text
      [] k = "VOYAGE_API_KEY" -> config.voyage_api_key.text
      [] k = "AGENT_NAME" -> config.agent_name
      [] k = "AUTH_TOKEN" -> AuthTokenText(config.auth_token)

CreatedNames == {created[c].name : c \in 1..Len(created)}

\* C28: every secret create_all_secrets creates follows the key routing: brain holds
\* the OAuth token, API key and secondary API key that are present, the auth token and
\* the agent name; worker holds the OAuth token and API key that are present and the
\* agent name, a subset of brain's keys; gateway holds the auth token and the
\* TELEGRAM_BOT_TOKEN, DISCORD_BOT_TOKEN and DISCORD_APP_ID values of the enabled
\* features; GITHUB_TOKEN and PERPLEXITY_API_KEY of the enabled features are each in a
\* secret of their own with that one key and not in gateway; no secret holds a value
\* of a disabled feature; and when create_all_secrets returns Ok all of these exist
C28_SecretsRoutedByKey ==
    /\ \A c \in 1..Len(created) :
        LET name == created[c].name
            d == created[c].data
        IN
        /\ name \in {"bakerst-brain-secrets", "bakerst-worker-secrets",
                     "bakerst-gateway-secrets", "bakerst-github-secrets",
                     "bakerst-perplexity-secrets"}
        /\ name = "bakerst-brain-secrets" =>
              /\ DOMAIN d = PresentKeys({"ANTHROPIC_OAUTH_TOKEN", "ANTHROPIC_API_KEY",
                                         "VOYAGE_API_KEY", "AUTH_TOKEN", "AGENT_NAME"})
              /\ \A k \in DOMAIN d : d[k] = ConfigText(k)
        /\ name = "bakerst-worker-secrets" =>
              /\ DOMAIN d = PresentKeys({"ANTHROPIC_OAUTH_TOKEN", "ANTHROPIC_API_KEY",
                                         "AGENT_NAME"})
              /\ \A k \in DOMAIN d : d[k] = ConfigText(k)
        /\ name = "bakerst-gateway-secrets" =>
              /\ DOMAIN d = {"AUTH_TOKEN"} \cup
                    {k \in {"TELEGRAM_BOT_TOKEN", "DISCORD_BOT_TOKEN", "DISCORD_APP_ID"} :
                        EnabledValuesOf(k) # {}}
              /\ d["AUTH_TOKEN"] = ConfigText("AUTH_TOKEN")
              /\ \A k \in DOMAIN d \ {"AUTH_TOKEN"} : d[k] \in EnabledValuesOf(k)
        /\ name = "bakerst-github-secrets" =>
              /\ DOMAIN d = {"GITHUB_TOKEN"}
              /\ d["GITHUB_TOKEN"] \in EnabledValuesOf("GITHUB_TOKEN")
        /\ name = "bakerst-perplexity-secrets" =>
              /\ DOMAIN d = {"PERPLEXITY_API_KEY"}
              /\ d["PERPLEXITY_API_KEY"] \in EnabledValuesOf("PERPLEXITY_API_KEY")
        /\ \A k \in DOMAIN d : d[k] \notin DisabledValues
    /\ cas = "ok" =>
        /\ {"bakerst-brain-secrets", "bakerst-worker-secrets", "bakerst-gateway-secrets"}
              \subseteq CreatedNames
        /\ "bakerst-github-secrets" \in CreatedNames
              <=> EnabledValuesOf("GITHUB_TOKEN") # {}
        /\ "bakerst-perplexity-secrets" \in CreatedNames
              <=> EnabledValuesOf("PERPLEXITY_API_KEY") # {}

\* create_all_secrets returned Ok for a configuration with telegram disabled but
\* holding a value, discord and github enabled with every key captured, and no
\* OAuth token: four secrets exist and gateway holds the two discord keys
C28_Witness ==
    /\ cas = "ok" /\ Len(created) = 4
    /\ ~config.oauth_token.some /\ config.api_key.some
    /\ ~features[1].enabled /\ features[1].secrets[1].value.some
    /\ features[2].enabled /\ features[3].enabled /\ ~features[4].enabled
    /\ EnabledValuesOf("GITHUB_ORG") # {}
    /\ DOMAIN created[4].data = {"AUTH_TOKEN", "DISCORD_BOT_TOKEN", "DISCORD_APP_ID"}

\* done never decreases, total changes only from 0 in a step of handle_auto_advance
\* taken with the status table still empty, and done <= total before and after
ProgressStep(before, after, table) ==
    /\ before.done <= before.total
    /\ after.done <= after.total
    /\ after.done >= before.done
    /\ after.total # before.total =>
          /\ before = [done |-> 0, total |-> 0]
          /\ table = <<>>
          /\ AutoAdvanceRan

\* C29: in the Pull and in the Deploy phase the progress pair (done, total) has
\* done <= total in every state, done never decreases, and total changes only when
\* the phase's coordinator is started
C29_ProgressPairs ==
    [][ /\ ProgressStep(pull_progress, pull_progress', pull_statuses)
        /\ ProgressStep(deploy_progress, deploy_progress', deploy_statuses)
      ]_vars

\* The control loop in Pull or in Deploy, with the phase's coordinator
InPullRun == phase = "Pull" \/ pull_statuses # <<>>

InitProgress ==
    \/ /\ InitPullPhase
       /\ manifest.loaded /\ Len(manifest.images) = 2
       /\ \A k \in 1..Len(manifest.images) : manifest.images[k].required
       /\ ~skip_extensions
    \/ InitDeploy

NextProgress ==
    \/ InPullRun /\ NextPullPhase
    \/ ~InPullRun /\ NextDeploy

SpecProgress == InitProgress /\ [][NextProgress]_vars

\* Deploy under way: the table was filled, a step has failed and a later one is done
C29_Witness ==
    /\ phase = "Deploy" /\ deployStarts = 1
    /\ deploy_progress.total = Len(deploy_statuses)
    /\ deploy_progress.done >= 3 /\ deploy_progress.done < deploy_progress.total
    /\ \E k \in 1..Len(deploy_statuses) : deploy_statuses[k].status.kind = "Failed"


(***************************************************************************)
(* wait_for_rollout (health.rs:34-63)                                      *)
(***************************************************************************)
MaxReplicas   == 2     \* SpecRollout: most replicas the workload has
MaxGetSeconds == 2     \* SpecRollout: most seconds one api.get takes
MaxTimeout    == 5     \* SpecRollout: largest timeout the caller passes, in seconds

NoneInt == [some |-> FALSE, n |-> 0]
SomeInt(n) == [some |-> TRUE, n |-> n]

\* Option::unwrap_or
UnwrapOr(opt, default) == IF opt.some THEN opt.n ELSE default

\* The workload as it is in the cluster: replicas and, of those, the ready ones
WorkloadStates ==
    {w \in [replicas : 0..MaxReplicas, ready : 0..MaxReplicas] : w.ready <= w.replicas}

\* DeploymentStatus as the API returns it: a count of zero is left out of the
\* object, so the field is None
StatusOf(w) ==
    [replicas |-> IF w.replicas = 0 THEN NoneInt ELSE SomeInt(w.replicas),
     ready_replicas |-> IF w.ready = 0 THEN NoneInt ELSE SomeInt(w.ready)]

\* `ready >= desired && desired > 0` taken to be `ready > 0`
RolloutReady_anyReady(status) ==
    LET ready == UnwrapOr(status.ready_replicas, 0)
    IN ready > 0

\* desired, ready and the test for success (health.rs:50-60)
RolloutReady(status) ==
    LET desired == UnwrapOr(status.replicas, 1)
        ready == UnwrapOr(status.ready_replicas, 0)
    IN ready >= desired /\ desired > 0

\* Top of the loop: bail when the timeout is exceeded (health.rs:45-47)
RolloutCheck ==
    /\ rollout.pc = "check"
    /\ rollout' = [rollout EXCEPT !.pc = IF rollout.elapsed > rollout.timeout
                                         THEN "timeout" ELSE "get"]
    /\ UNCHANGED <<appVars, phaseHist, pullVars, deployVars>>
    /\ UNCHANGED <<healthVars, healthHist, wizVars, wizHist, niVars, created, cas,
                   deployStarts>>

\* api.get(name).await? takes d seconds and fails, or returns the workload
\* (health.rs:49-60)
RolloutGet ==
    /\ rollout.pc = "get"
    /\ \E d \in 0..MaxGetSeconds :
        \/ rollout' = [rollout EXCEPT !.pc = "api_err", !.elapsed = @ + d]
        \/ \E w \in WorkloadStates :
            rollout' = [rollout EXCEPT
                            !.pc = IF RolloutReady(StatusOf(w)) THEN "ok" ELSE "sleep",
                            !.elapsed = @ + d,
                            !.polls = @ + 1,
                            !.late = @ + (IF rollout.elapsed + d > rollout.timeout
                                          THEN 1 ELSE 0),
                            !.seen = <<w>>]
    /\ UNCHANGED <<appVars, phaseHist, pullVars, deployVars>>
    /\ UNCHANGED <<healthVars, healthHist, wizVars, wizHist, niVars, created, cas,
                   deployStarts>>

\* tokio::time::sleep(POLL_INTERVAL).await (health.rs:62)
RolloutSleep ==
    /\ rollout.pc = "sleep"
    /\ rollout' = [rollout EXCEPT !.pc = "check", !.elapsed = @ + POLL_INTERVAL]
    /\ UNCHANGED <<appVars, phaseHist, pullVars, deployVars>>
    /\ UNCHANGED <<healthVars, healthHist, wizVars, wizHist, niVars, created, cas,
                   deployStarts>>

\* wait_for_rollout is called with any timeout
InitRollout ==
    /\ IdleApp
    /\ IdlePhaseHist
    /\ IdlePull
    /\ IdleDeploy
    /\ IdleHealth
    /\ IdleWiz
    /\ IdleNi
    /\ deployStarts = 0
    /\ created = <<>> /\ cas = "not_called"
    /\ \E t \in 0..MaxTimeout :
        rollout = [pc |-> "check", timeout |-> t, elapsed |-> 0, polls |-> 0,
                   late |-> 0, seen |-> <<>>]

NextRollout ==
    \/ RolloutCheck
    \/ RolloutGet
    \/ RolloutSleep

SpecRollout == InitRollout /\ [][NextRollout]_vars

\* The last poll found as many ready replicas as the workload has replicas
SeenMatch == rollout.seen # <<>> /\ rollout.seen[1].ready = rollout.seen[1].replicas

\* C30: wait_for_rollout returns success as soon as a poll finds the ready count
\* equal to the workload's replica count, whatever that count is, and otherwise
\* returns the timeout error after the timeout; at most one poll ends after the
\* timeout
C30_RolloutSuccessOrTimeout ==
    /\ SeenMatch => rollout.pc = "ok"
    /\ rollout.pc = "ok" => SeenMatch
    /\ rollout.pc \in {"check", "get", "sleep", "ok", "timeout"}
    /\ rollout.pc = "timeout" => rollout.elapsed > rollout.timeout
    /\ rollout.late <= 1

\* C30 as amended: success exactly when a poll finds at least one replica and all
\* replicas ready, never for a workload without replicas; a failed read ends
\* wait_for_rollout with that error; the timeout error is returned only after the
\* timeout; at most one poll ends after the timeout, and there are at most
\* timeout / 2 + 1 polls
C30_RolloutSuccessNeedsReplicas ==
    /\ (SeenMatch /\ rollout.seen[1].replicas >= 1) => rollout.pc = "ok"
    /\ rollout.pc = "ok" => SeenMatch /\ rollout.seen[1].replicas >= 1
    /\ rollout.pc \in {"check", "get", "sleep", "ok", "timeout", "api_err"}
    /\ rollout.pc = "timeout" => rollout.elapsed > rollout.timeout
    /\ rollout.late <= 1
    /\ rollout.polls <= (rollout.timeout \div POLL_INTERVAL) + 1

\* The third poll, begun before a timeout of 5 seconds and ended after it, found
\* both replicas ready after polls that had found none and one ready
C30_Witness ==
    /\ rollout.pc = "ok" /\ rollout.timeout = 5
    /\ rollout.polls = 3 /\ rollout.late = 1
    /\ rollout.seen = <<[replicas |-> 2, ready |-> 2]>>

(* Claims about the wizard's cursor, flag and captured values *)
\* C31: collecting_feature_secrets is set only while the phase is Secrets; the phase
\* leaves Secrets only when handle_auto_advance finds the cursor past the last
\* prompt, for Confirm if the flag is set and for Features otherwise, and the flag
\* is clear afterwards; Cancel at Confirm enters Secrets with the flag clear
C31_DetourFlagOnlyInSecrets ==
    [][ /\ collecting_feature_secrets => phase = "Secrets"
        /\ collecting_feature_secrets' => phase' = "Secrets"
        /\ (phase = "Secrets" /\ AutoAdvanceRan
              /\ current_secret_index >= Len(secret_prompts)) =>
              /\ phase' = IF collecting_feature_secrets THEN "Confirm" ELSE "Features"
              /\ ~collecting_feature_secrets'
        /\ (phase = "Secrets" /\ phase' # phase) =>
              /\ AutoAdvanceRan
              /\ current_secret_index >= Len(secret_prompts)
        /\ (phase = "Confirm" /\ phase' = "Secrets") => ~collecting_feature_secrets'
      ]_vars

\* After a detour through two feature prompts and Cancel at Confirm the phase is
\* Secrets again with the flag clear and the feature prompts still in the list
C31_Witness ==
    /\ phase = "Secrets" /\ cancels = 1 /\ tokens = 1
    /\ ~collecting_feature_secrets
    /\ current_secret_index = 0
    /\ Len(FeaturePromptsOf(secret_prompts)) = 2

(* Claims about the control loop in Pull *)
\* C32: when the manifest is loaded and the list of images to pull is empty, a run
\* of handle_auto_advance in Pull starts no pull and moves the phase to Deploy
C32_EmptyPullAdvances ==
    [][ (phase = "Pull" /\ AutoAdvanceRan /\ manifest.loaded /\ ImagesToPull = <<>>) =>
            /\ pullStarts' = 0
            /\ phase' = "Deploy"
      ]_vars

(* Claims about the end of the run *)
\* The control loop has applied an AllHealthy event and no Failed event
AllHealthyReceived ==
    /\ health_done /\ ~health_failed
    /\ \E k \in 1..Len(terminals) : terminals[k].type = "AllHealthy"

\* C33: the phase becomes Complete only from Health and only after an AllHealthy
\* event was applied; once a Failed outcome was applied the failure stays recorded
\* and the phase stays Health through every later event, key press and auto-advance
C33_CompleteOnlyAfterAllHealthy ==
    [][ /\ (phase' = "Complete" /\ phase # "Complete") =>
              (phase = "Health" /\ AllHealthyReceived)
        /\ phase = "Complete" => AllHealthyReceived
        /\ health_failed => (phase = "Health" /\ phase' = "Health" /\ health_failed')
      ]_vars

\* A Failed outcome of poll_health was applied, and handle_auto_advance has since
\* run with the failure recorded
C33_Witness ==
    /\ phase = "Health" /\ health_done /\ health_failed
    /\ handled = 1 /\ loop = "poll" /\ async_rx = <<>>
    /\ \E k \in 1..Len(terminals) : terminals[k].type = "Failed" /\ terminals[k].from = "poll_health"

\* Every artifact of the pull table has had its terminal event applied by the control loop
AllTerminalReceived ==
    \A i \in 1..Len(pull_statuses) :
        \E k \in 1..Len(ReceivedFor(i)) : ReceivedFor(i)[k].type \in TerminalTypes

C35_DeployDoneOnceAllApplied ==
    [][ /\ doneMsgs' <= 1
        /\ doneMsgs' # doneMsgs => (phase = "Deploy" /\ phase' = "Health")
        /\ (phase = "Deploy" /\ phase' # "Deploy") =>
              /\ doneMsgs' = doneMsgs + 1
              /\ seq.pc = "finished"
              /\ \A k \in 1..Len(async_rx') : ~IsStepMsg(async_rx'[k])
              /\ dropped = <<>>
              /\ deploy_progress.done = Len(SelectSeq(received, IsStepMsg))
      ]_vars

(* Claims about the manifest *)
\* C36: whenever the phase is Pull, Deploy or Health the manifest is loaded
C36_ManifestPresentFromPull ==
    phase \in {"Pull", "Deploy", "Health"} => manifest.loaded

(* Claims about the captured secret values *)
\* C37: in every phase past Secrets each prompt marked required holds a captured
\* value that is not empty
C37_RequiredPromptsFilled ==
    phase \in {"Features", "Confirm", "Pull", "Deploy", "Health", "Complete"} =>
        \A k \in 1..Len(secret_prompts) :
            secret_prompts[k].required =>
                (secret_prompts[k].value.some /\ secret_prompts[k].value.text # <<>>)

\* Confirm was reached a second time, after Cancel, with a required prompt and an
\* optional prompt that was left without a value
C37_Witness ==
    /\ phase = "Confirm" /\ cancels = 1
    /\ \E k \in 1..Len(secret_prompts) : secret_prompts[k].required
    /\ \E k \in 1..Len(secret_prompts) :
          ~secret_prompts[k].required /\ ~secret_prompts[k].value.some

\* The prompt's captured value for a base secret key; absent if the key has no prompt
PromptValue(key) ==
    IF \E k \in 1..Len(secret_prompts) : secret_prompts[k].key = key
    THEN secret_prompts[CHOOSE k \in 1..Len(secret_prompts) : secret_prompts[k].key = key].value
    ELSE NoneStr

\* C38: when secret collection finishes (handle_auto_advance leaves Secrets), the
\* config value of each base secret key equals the value its prompt captured
C38_ConfigMatchesPrompts ==
    [][ (phase = "Secrets" /\ phase' # "Secrets") =>
            /\ config'.oauth_token = PromptValue("ANTHROPIC_OAUTH_TOKEN")
            /\ config'.api_key = PromptValue("ANTHROPIC_API_KEY")
            /\ config'.voyage_api_key = PromptValue("VOYAGE_API_KEY")
      ]_vars

(* Claims about poll_health's cycles *)
\* C39: AllHealthy is emitted only at the end of a cycle in which at least one pod
\* was listed, and every pod listed in it was ready
C39_AllHealthyNeedsObservedPod ==
    \A k \in 1..Len(terminals) :
        terminals[k].type = "AllHealthy" =>
            /\ observed # <<>>
            /\ \A j \in 1..Len(observed) : observed[j].ready

(* Claims about the secret cursor *)
\* C40: the secret cursor never exceeds the number of secret prompts
C40_CursorWithinPrompts ==
    current_secret_index <= Len(secret_prompts)

\* C40, amended: while the phase is Secrets the cursor is at most the number of
\* prompts; in Features, Confirm and Pull it is at least that number, and exceeds it
\* only after a rebuild in Features has removed feature prompts
C40_CursorWithinPromptsInSecrets ==
    /\ phase = "Secrets" => current_secret_index <= Len(secret_prompts)
    /\ phase \in {"Features", "Confirm", "Pull"} =>
          /\ current_secret_index >= Len(secret_prompts)
          /\ current_secret_index > Len(secret_prompts) =>
                (cancels >= 1 /\ FeaturePromptsOf(secret_prompts) = <<>>)

\* Confirm after a rebuild that removed the feature prompts: the cursor is past the
\* end of the shorter prompt list
C40_Witness ==
    /\ phase = "Confirm" /\ cancels = 1 /\ tokens = 2
    /\ current_secret_index > Len(secret_prompts)
=============================================================================
